---- MODULE Spec2Model ----
(***************************************************************************)
(* Network Simulation Broker (NSB): the broker daemon of                   *)
(* cpp/src/nsb_daemon.cc and the client runtime of cpp/src/nsb_client.cc.  *)
(*                                                                         *)
(* The daemon is a single-threaded select loop.  One step of the model is  *)
(* one accept, or one frame read from a channel fd and run through         *)
(* handle_message.  A client call is one step: the frame the call writes   *)
(* is read and handled by the daemon, and for the calls that wait for a    *)
(* response (INIT, FETCH, RECEIVE) the response is parsed by the caller    *)
(* in the same step.  One frame per recv-drain cycle is assumed, as the    *)
(* protocol does, and a recv on a drained channel fd is taken to return    *)
(* at once, as the drain loop of start_server needs it to.                 *)
(***************************************************************************)
EXTENDS Integers, Sequences, FiniteSets, TLC

(***************************************************************************)
(* Bounds of the model.                                                    *)
(***************************************************************************)
\* SEND frames the daemon buffers (entries ever appended to tx_buffer).
MaxSend == 4
\* POST frames with code MESSAGE the daemon buffers.
MaxPost == 3
\* MESSAGE replies to RECEIVE frames.
MaxReceive == 3
\* Calls recorded in a client's call log.
MaxCalls == 4
\* FORWARD frames waiting unread on one client connection.
MaxOutbox == 1
\* Messages an end-to-end run takes through send, fetch, post and receive.
MaxCycle == 1
\* Frames of one kind (SEND, POST with code MESSAGE) in a run over all ops.
MaxWire == 2

\* Values of the clock that generatePayloadId may read: 0..MaxTime.
MaxTime == 1
\* The payload counter wraps at CounterWrap, which stands for 0xFFFFF + 1.
CounterWrap == 2
\* Calls of store by all clients.
MaxPut == 3

(***************************************************************************)
(* Enumerations of the wire schema and of Config.                          *)
(***************************************************************************)
Channels == <<"CTRL", "SEND", "RECV">>

\* Manifest::Originator
Originators == {"DAEMON", "APP_CLIENT", "SIM_CLIENT"}

NoFd == -1

\* The listening socket: the first descriptor after stdin, stdout and stderr.
ServerFd == 3

\* A null std::string* argument.
nullptr == "<nullptr>"

\* The processes that use the client runtime: og is *originIndicator, id is
\* clientId.  simA shares its identifier with appA, as nsb_test.cc does, and
\* appA2 is a second app process started under appA's identifier.
ClientSeq == <<"appA", "appB", "simS", "simA", "appA2">>

Clients == {ClientSeq[i] : i \in 1..Len(ClientSeq)}

clientId(c) == CASE c = "appA" -> "A" [] c = "appB" -> "B"
                 [] c = "simS" -> "S" [] OTHER -> "A"

originIndicator(c) ==
    IF c \in {"appA", "appB", "appA2"} THEN "APP_CLIENT" ELSE "SIM_CLIENT"

AppClients == {c \in Clients : originIndicator(c) = "APP_CLIENT"}

SimClients == {c \in Clients : originIndicator(c) = "SIM_CLIENT"}

AppIds == {clientId(c) : c \in AppClients}

\* Payloads are byte strings; payload.size() is their length.
Payloads == {<<1>>, <<2, 2>>}

ClientIndex(c) == CHOOSE i \in 1..Len(ClientSeq) : ClientSeq[i] = c

ChannelIndex(ch) == CHOOSE i \in 1..Len(Channels) : Channels[i] = ch

\* The locally bound port of a client's channel (getsockname): the kernel
\* gives every connection of the host its own port.
Port(c, ch) == Len(Channels) * (ClientIndex(c) - 1) + ChannelIndex(ch)

Ports == {Port(c, ch) : c \in Clients, ch \in {"CTRL", "SEND", "RECV"}}

(***************************************************************************)
(* MessageEntry and the nsbm message.                                      *)
(***************************************************************************)
MessageEntry(src, dest, data, size) ==
    [source |-> src, destination |-> dest, payload_obj |-> data, payload_size |-> size]

BlankEntry == MessageEntry("", "", <<>>, 0)

\* MessageEntry::exists(): the entry is not the blank sentinel.
exists(e) == ~(e.source = "" /\ e.destination = "" /\ e.payload_obj = <<>>)

NoIntro == [identifier |-> "", ch_ctrl |-> 0, ch_send |-> 0, ch_recv |-> 0]

NoConfig == [sys_mode |-> "PULL", sim_mode |-> "SYSTEM_WIDE", use_db |-> FALSE]

\* A message with only its manifest set; every other field reads as its
\* protobuf default.
Manifest(op, og, code) ==
    [payload_size |-> 0, op |-> op, og |-> og, code |-> code,
     has_metadata |-> FALSE, has_src_id |-> FALSE, src_id |-> "",
     has_dest_id |-> FALSE, dest_id |-> "",
     has_intro |-> FALSE, intro |-> NoIntro,
     has_config |-> FALSE, config |-> NoConfig,
     payload |-> <<>>, msg_key |-> <<>>]

\* mutable_metadata()->set_src_id / set_dest_id / set_payload_size
SetMetadata(m, src, dest, size) ==
    [m EXCEPT !.has_metadata = TRUE, !.has_src_id = TRUE, !.src_id = src,
              !.has_dest_id = TRUE, !.dest_id = dest, !.payload_size = size]

SetSrcId(m, src) == [m EXCEPT !.has_metadata = TRUE, !.has_src_id = TRUE, !.src_id = src]

SetDestId(m, dest) == [m EXCEPT !.has_metadata = TRUE, !.has_dest_id = TRUE, !.dest_id = dest]

VARIABLES
    cfg,                \* the daemon's Config
    running,            \* NSBDaemon::running
    listening,          \* start_server has not returned: server_fd is open
    sweep,              \* once stopped: the fds the last round has yet to visit
    crashed,            \* the daemon process died or hangs in a handler
    stuck,              \* the FORWARD write a handler waits to make: <<>> or <<[fd, msg]>>
    channel_fds,        \* start_server's vector of accepted fds
    fd_lookup,          \* "address:port" -> fd
    app_client_lookup,  \* identifier -> ClientDetails
    sim_client_lookup,  \* identifier -> ClientDetails
    tx_buffer,          \* entries SENT, waiting for FETCH
    rx_buffer,          \* entries POSTED, waiting for RECEIVE
    backlog,            \* connections made and not yet accepted (ports)
    sock,               \* the kernel's open accepted sockets: fd -> port
    outbox,             \* port -> frames written by the daemon, not yet read
    pc,                 \* client -> "new" | "connected" | "ready" | "exited" | "closed"
    ccfg,               \* client -> the client's Config
    calls,              \* client -> log of its fetch/receive calls and results
    waiting,            \* client -> the channels a receiveMessage call of it waits on
    handled,            \* the frame handle_message ran on in the last step, with its fd
    writes,             \* the frames the daemon wrote in the last step
    txLog,              \* entries appended to tx_buffer, in order
    popLog,             \* entries returned by MESSAGE replies to unfiltered FETCH
    rxLog,              \* entries appended to rx_buffer, in order
    rcvLog,             \* entries returned by MESSAGE replies to RECEIVE
    redis,              \* the Redis server's keys: key -> value
    plctr,              \* client -> DBConnector::plctr
    db_online,          \* client -> its redisContext is usable (err == REDIS_OK)
    clock,              \* the system clock as generatePayloadId reads it (an int)
    puts,               \* the calls of store, in order: key returned, value given, caller
    takes               \* the calls of checkOut, in order: key, caller, whether it was found

daemonVars == <<cfg, running, listening, sweep, crashed, stuck, channel_fds, fd_lookup,
                app_client_lookup, sim_client_lookup, tx_buffer, rx_buffer>>

netVars == <<backlog, sock, outbox>>

clientVars == <<pc, ccfg, calls, waiting>>

histVars == <<handled, writes, txLog, popLog, rxLog, rcvLog>>

dbVars == <<redis, plctr, db_online, clock, puts, takes>>

vars == <<daemonVars, netVars, clientVars, histVars, dbVars>>

(***************************************************************************)
(* Daemon helpers.                                                         *)
(***************************************************************************)
EmptyMap == [k \in {} |-> NoFd]

\* std::map::emplace: inserts only when the key is not present yet.
emplace(map, key, value) == IF key \in DOMAIN map THEN map ELSE map @@ (key :> value)

\* fd_lookup.find(address + ":" + port) != end() ? fd_lookup[...] : -1.  Every
\* client is on the daemon's host (it binds 127.0.0.1), so the port is the key.
LookupFd(port) == IF port \in DOMAIN fd_lookup THEN fd_lookup[port] ELSE NoFd

\* ClientDetails(nsb_msg, fd_lookup)
ClientDetails(msg) ==
    [identifier |-> msg.intro.identifier,
     ch_CTRL_fd |-> LookupFd(msg.intro.ch_ctrl),
     ch_SEND_fd |-> LookupFd(msg.intro.ch_send),
     ch_RECV_fd |-> LookupFd(msg.intro.ch_recv)]

\* msg_get_payload_obj: the offload key when the store is used, else the bytes.
msg_get_payload_obj(msg) == IF cfg.USE_DB THEN msg.msg_key ELSE msg.payload

\* msg_set_payload_obj
msg_set_payload_obj(payload_obj, msg) ==
    IF cfg.USE_DB THEN [msg EXCEPT !.msg_key = payload_obj]
    ELSE [msg EXCEPT !.payload = payload_obj]

\* for (const auto& msg : buffer) if (msg.source == src_id) {found = msg; break;}
FirstWithSource(buffer, src_id) ==
    IF \E i \in 1..Len(buffer) : buffer[i].source = src_id
    THEN buffer[CHOOSE i \in 1..Len(buffer) :
                  /\ buffer[i].source = src_id
                  /\ \A j \in 1..(i - 1) : buffer[j].source # src_id]
    ELSE BlankEntry

FirstWithDestination(buffer, dest_id) ==
    IF \E i \in 1..Len(buffer) : buffer[i].destination = dest_id
    THEN buffer[CHOOSE i \in 1..Len(buffer) :
                  /\ buffer[i].destination = dest_id
                  /\ \A j \in 1..(i - 1) : buffer[j].destination # dest_id]
    ELSE BlankEntry

\* What a handler leaves behind: the daemon's tables and buffers, the response
\* (at most one frame, sent on the fd the frame came from when
\* response_required is set) and the frames it wrote itself to other fds.
Unchanged ==
    [tx_buffer |-> tx_buffer, rx_buffer |-> rx_buffer,
     app_client_lookup |-> app_client_lookup, sim_client_lookup |-> sim_client_lookup,
     running |-> running, crashed |-> FALSE, response |-> <<>>, forwards |-> <<>>,
     blocked |-> <<>>]

\* The process ends (uncaught exception, invalid memory access) or never
\* returns from the handler.
Crash == [Unchanged EXCEPT !.crashed = TRUE]

Respond(o, msg) == [o EXCEPT !.response = <<msg>>]

\* select(fd + 1, nullptr, &write_fd, nullptr, nullptr) returns: the socket
\* takes another frame (the peer's receive buffer has room).
Writable(fd) == Len(outbox[sock[fd]]) < MaxOutbox

\* A faulty forward: its wait for a writable socket gives up.
ForwardTo_timeout(fd, out) ==
    IF fd \in DOMAIN sock
    THEN IF Writable(fd) THEN {[Unchanged EXCEPT !.forwards = <<[msg |-> out, fd |-> fd]>>]}
         ELSE {Unchanged}
    ELSE IF fd = NoFd THEN {Crash}
    ELSE {Unchanged}

\* FD_SET(fd); select(fd + 1, nullptr, &write_fd, nullptr, nullptr); send(fd).
\* The wait has no timeout: while the open socket is not writable the handler
\* does not return.  On a closed fd select fails and nothing is sent.
\* FD_SET(-1) is undefined and select(0, ...) without a timeout never returns.
ForwardTo(fd, out) ==
    IF fd \in DOMAIN sock
    THEN IF Writable(fd) THEN {[Unchanged EXCEPT !.forwards = <<[msg |-> out, fd |-> fd]>>]}
         ELSE {[Unchanged EXCEPT !.blocked = <<[msg |-> out, fd |-> fd]>>]}
    ELSE IF fd = NoFd THEN {Crash}
    ELSE {Unchanged}

(***************************************************************************)
(* The daemon's handlers: the set of outcomes of running the handler on    *)
(* msg in the current state.                                               *)
(***************************************************************************)
\* A faulty handle_init: in system-wide mode a simulator is registered under
\* its own identifier, whether or not one is registered already.
handle_init_keyed(msg) ==
    LET details == ClientDetails(msg)
        reply ==
            [Manifest("INIT", "DAEMON", "SUCCESS")
                EXCEPT !.has_config = TRUE,
                       !.config = [NoConfig EXCEPT !.sys_mode = cfg.SYSTEM_MODE,
                                                   !.use_db = cfg.USE_DB]]
    IN  IF ~msg.has_intro THEN {Unchanged}
        ELSE IF msg.og = "APP_CLIENT"
        THEN {Respond([Unchanged EXCEPT !.app_client_lookup =
                          emplace(app_client_lookup, msg.intro.identifier, details)],
                      reply)}
        ELSE IF msg.og = "SIM_CLIENT"
        THEN {Respond([Unchanged EXCEPT !.sim_client_lookup =
                          emplace(sim_client_lookup, msg.intro.identifier, details)],
                      reply)}
        ELSE {Unchanged}

handle_init(msg) ==
    LET details == ClientDetails(msg)
        reply(success) ==
            [Manifest("INIT", "DAEMON", IF success THEN "SUCCESS" ELSE "FAILURE")
                EXCEPT !.has_config = TRUE,
                       !.config = [NoConfig EXCEPT !.sys_mode = cfg.SYSTEM_MODE,
                                                   !.use_db = cfg.USE_DB]]
    IN  IF ~msg.has_intro THEN {Unchanged}
        ELSE IF msg.og = "APP_CLIENT"
        THEN {Respond([Unchanged EXCEPT !.app_client_lookup =
                          emplace(app_client_lookup, msg.intro.identifier, details)],
                      reply(TRUE))}
        ELSE IF msg.og = "SIM_CLIENT"
        THEN IF cfg.SIMULATOR_MODE = "PER_NODE"
             THEN {Respond([Unchanged EXCEPT !.sim_client_lookup =
                               emplace(sim_client_lookup, msg.intro.identifier, details)],
                           reply(TRUE))}
             ELSE IF Cardinality(DOMAIN sim_client_lookup) > 0
             THEN {Respond(Unchanged, reply(FALSE))}
             ELSE {Respond([Unchanged EXCEPT !.sim_client_lookup =
                               emplace(sim_client_lookup, "simulator", details)],
                           reply(TRUE))}
        ELSE {Unchanged}

\* A faulty handle_ping: it does not ask for the response to be sent.
handle_ping_silent(msg) == {Unchanged}

handle_ping(msg) == {Respond(Unchanged, Manifest("PING", "DAEMON", "SUCCESS"))}

\* The fds a read of sim_client_lookup.end() may yield: any int the process
\* could hold there, an open socket or not.
StrayFds == {NoFd} \cup DOMAIN sock \cup {ServerFd + Cardinality(Ports) + 1}

\* A faulty handle_send: it buffers the entry in PUSH mode as well, before
\* it forwards the frame.
handle_send_keep(msg) ==
    LET entry == MessageEntry(msg.src_id, msg.dest_id, msg_get_payload_obj(msg),
                              msg.payload_size)
    IN  IF cfg.SYSTEM_MODE = "PULL"
        THEN {[Unchanged EXCEPT !.tx_buffer = Append(tx_buffer, entry)]}
        ELSE LET out == [msg EXCEPT !.op = "FORWARD"]
                 sent == IF cfg.SIMULATOR_MODE = "SYSTEM_WIDE"
                         THEN IF DOMAIN sim_client_lookup = {}
                              THEN {Crash} \cup UNION {ForwardTo(fd, out) : fd \in StrayFds}
                              ELSE ForwardTo(sim_client_lookup[CHOOSE k \in DOMAIN
                                       sim_client_lookup : TRUE].ch_RECV_fd, out)
                         ELSE IF msg.src_id \in DOMAIN sim_client_lookup
                              THEN ForwardTo(sim_client_lookup[msg.src_id].ch_RECV_fd, out)
                              ELSE {Crash}
             IN  {[o EXCEPT !.tx_buffer = Append(tx_buffer, entry)] : o \in sent}

handle_send(msg) ==
    IF cfg.SYSTEM_MODE = "PULL"
    THEN {[Unchanged EXCEPT !.tx_buffer =
              Append(tx_buffer, MessageEntry(msg.src_id, msg.dest_id,
                                             msg_get_payload_obj(msg), msg.payload_size))]}
    ELSE LET out == [msg EXCEPT !.op = "FORWARD"]
         IN  IF cfg.SIMULATOR_MODE = "SYSTEM_WIDE"
             THEN IF DOMAIN sim_client_lookup = {}
                  THEN {Crash} \cup UNION {ForwardTo(fd, out) : fd \in StrayFds}
                  ELSE ForwardTo(sim_client_lookup[CHOOSE k \in DOMAIN sim_client_lookup :
                                                      TRUE].ch_RECV_fd, out)
             ELSE IF msg.src_id \in DOMAIN sim_client_lookup
                  THEN ForwardTo(sim_client_lookup[msg.src_id].ch_RECV_fd, out)
                  ELSE {Crash}

\* A faulty handle_fetch: the unfiltered branch takes the newest entry.
handle_fetch_back(msg) ==
    LET filtered == msg.has_metadata /\ msg.has_src_id
        fetched_message ==
            IF filtered THEN FirstWithSource(tx_buffer, msg.src_id)
            ELSE IF tx_buffer # <<>> THEN tx_buffer[Len(tx_buffer)]
            ELSE BlankEntry
        left == IF ~filtered /\ tx_buffer # <<>>
                THEN SubSeq(tx_buffer, 1, Len(tx_buffer) - 1) ELSE tx_buffer
        reply ==
            IF fetched_message.source # ""
            THEN msg_set_payload_obj(fetched_message.payload_obj,
                     SetMetadata(Manifest("FETCH", "DAEMON", "MESSAGE"),
                                 fetched_message.source, fetched_message.destination,
                                 fetched_message.payload_size))
            ELSE Manifest("FETCH", "DAEMON", "NO_MESSAGE")
    IN  {Respond([Unchanged EXCEPT !.tx_buffer = left], reply)}

\* A faulty handle_fetch: nothing is sent back when nothing was found.
handle_fetch_silent(msg) ==
    LET filtered == msg.has_metadata /\ msg.has_src_id
        fetched_message ==
            IF filtered THEN FirstWithSource(tx_buffer, msg.src_id)
            ELSE IF tx_buffer # <<>> THEN Head(tx_buffer)
            ELSE BlankEntry
        left == IF ~filtered /\ tx_buffer # <<>> THEN Tail(tx_buffer) ELSE tx_buffer
    IN  IF fetched_message.source # ""
        THEN {Respond([Unchanged EXCEPT !.tx_buffer = left],
                 msg_set_payload_obj(fetched_message.payload_obj,
                     SetMetadata(Manifest("FETCH", "DAEMON", "MESSAGE"),
                                 fetched_message.source, fetched_message.destination,
                                 fetched_message.payload_size)))}
        ELSE {[Unchanged EXCEPT !.tx_buffer = left]}

handle_fetch(msg) ==
    LET filtered == msg.has_metadata /\ msg.has_src_id
        fetched_message ==
            IF filtered THEN FirstWithSource(tx_buffer, msg.src_id)
            ELSE IF tx_buffer # <<>> THEN Head(tx_buffer)
            ELSE BlankEntry
        left == IF ~filtered /\ tx_buffer # <<>> THEN Tail(tx_buffer) ELSE tx_buffer
        reply ==
            IF fetched_message.source # ""
            THEN msg_set_payload_obj(fetched_message.payload_obj,
                     SetMetadata(Manifest("FETCH", "DAEMON", "MESSAGE"),
                                 fetched_message.source, fetched_message.destination,
                                 fetched_message.payload_size))
            ELSE Manifest("FETCH", "DAEMON", "NO_MESSAGE")
    IN  {Respond([Unchanged EXCEPT !.tx_buffer = left], reply)}

handle_post(msg) ==
    IF cfg.SYSTEM_MODE = "PULL"
    THEN IF msg.code = "MESSAGE"
         THEN {[Unchanged EXCEPT !.rx_buffer =
                   Append(rx_buffer, MessageEntry(msg.src_id, msg.dest_id,
                                                  msg_get_payload_obj(msg), msg.payload_size))]}
         ELSE {Unchanged}
    ELSE LET out == [msg EXCEPT !.op = "FORWARD"]
             target_fd == IF msg.dest_id \in DOMAIN app_client_lookup
                          THEN app_client_lookup[msg.dest_id].ch_RECV_fd
                          ELSE NoFd
         IN  IF target_fd # NoFd THEN ForwardTo(target_fd, out) ELSE {Unchanged}

\* A faulty handle_receive: it answers with the oldest entry, whatever its
\* destination.
handle_receive_head(msg) ==
    LET received_message ==
            IF msg.has_metadata /\ msg.has_dest_id /\ rx_buffer # <<>>
            THEN Head(rx_buffer)
            ELSE BlankEntry
        reply ==
            IF exists(received_message)
            THEN msg_set_payload_obj(received_message.payload_obj,
                     SetMetadata(Manifest("RECEIVE", "DAEMON", "MESSAGE"),
                                 received_message.source, received_message.destination,
                                 received_message.payload_size))
            ELSE Manifest("RECEIVE", "DAEMON", "NO_MESSAGE")
    IN  {Respond(Unchanged, reply)}

handle_receive(msg) ==
    LET received_message ==
            IF msg.has_metadata /\ msg.has_dest_id
            THEN FirstWithDestination(rx_buffer, msg.dest_id)
            ELSE BlankEntry
        reply ==
            IF exists(received_message)
            THEN msg_set_payload_obj(received_message.payload_obj,
                     SetMetadata(Manifest("RECEIVE", "DAEMON", "MESSAGE"),
                                 received_message.source, received_message.destination,
                                 received_message.payload_size))
            ELSE Manifest("RECEIVE", "DAEMON", "NO_MESSAGE")
    IN  {Respond(Unchanged, reply)}

stop == {[Unchanged EXCEPT !.running = FALSE]}

\* A faulty handle_message: a frame with an unknown op stops the daemon.
handle_message_stop(msg) ==
    CASE msg.op = "INIT" -> handle_init(msg)
      [] msg.op = "PING" -> handle_ping(msg)
      [] msg.op = "SEND" -> handle_send(msg)
      [] msg.op = "FETCH" -> handle_fetch(msg)
      [] msg.op = "POST" -> handle_post(msg)
      [] msg.op = "RECEIVE" -> handle_receive(msg)
      [] OTHER -> stop

handle_message(msg) ==
    CASE msg.op = "INIT" -> handle_init(msg)
      [] msg.op = "PING" -> handle_ping(msg)
      [] msg.op = "SEND" -> handle_send(msg)
      [] msg.op = "FETCH" -> handle_fetch(msg)
      [] msg.op = "POST" -> handle_post(msg)
      [] msg.op = "RECEIVE" -> handle_receive(msg)
      [] msg.op = "EXIT" -> stop
      [] OTHER -> {Respond(Unchanged, Manifest("PING", "DAEMON", "FAILURE"))}

(***************************************************************************)
(* The event loop of start_server.                                         *)
(***************************************************************************)
NoFrame == [msg |-> Manifest("", "", ""), fd |-> NoFd]

Accepted(c, ch) == \E fd \in DOMAIN sock : sock[fd] = Port(c, ch)

FdOf(c, ch) == CHOOSE fd \in DOMAIN sock : sock[fd] = Port(c, ch)

ClientOfFd(fd) == CHOOSE c \in Clients : \E ch \in {"CTRL", "SEND", "RECV"} : Port(c, ch) = sock[fd]

Last(seq) == seq[Len(seq)]

\* The entry a reply or a FORWARD frame carries.
EntryOf(m) == MessageEntry(m.src_id, m.dest_id, msg_get_payload_obj(m), m.payload_size)

\* accept(): the lowest descriptor that is not open.
NextFd ==
    CHOOSE fd \in (ServerFd + 1)..(ServerFd + Cardinality(Ports) + 1) :
        /\ fd \notin DOMAIN sock
        /\ \A g \in (ServerFd + 1)..(fd - 1) : g \in DOMAIN sock

\* One round of the loop that accepts a pending connection.
Accept ==
    /\ running /\ ~crashed /\ stuck = <<>>
    /\ backlog # <<>>
    /\ fd_lookup' = emplace(fd_lookup, Head(backlog), NextFd)
    /\ channel_fds' = Append(channel_fds, NextFd)
    /\ sock' = sock @@ (NextFd :> Head(backlog))
    /\ backlog' = Tail(backlog)
    /\ handled' = NoFrame
    /\ writes' = <<>>
    /\ UNCHANGED <<cfg, running, listening, sweep, crashed, stuck, app_client_lookup,
                   sim_client_lookup, tx_buffer, rx_buffer, outbox, clientVars,
                   txLog, popLog, rxLog, rcvLog, dbVars>>

\* The part of seq that follows its element x.
After(seq, x) ==
    IF \E i \in 1..Len(seq) : seq[i] = x
    THEN SubSeq(seq, (CHOOSE i \in 1..Len(seq) : seq[i] = x) + 1, Len(seq))
    ELSE <<>>

\* The fds the round in progress may still read: all of them while the
\* daemon runs; once an EXIT was handled, the loop over channel_fds goes on
\* to its end (it does not test running) and reads the fds that follow.
Readable == IF running THEN channel_fds ELSE sweep

\* One visit of the loop over channel_fds that reads msg from fd and runs
\* handle_message on it, with outcome o.  The response goes to the peer that
\* waits for it and is read by it in the same step; frames written to other
\* fds wait in outbox.
\* A faulty server loop: it reads no frame of a client whose receive is
\* still waiting for a message.
Deliver_serial(fd, msg, o) ==
    /\ listening /\ ~crashed /\ stuck = <<>>
    /\ waiting[ClientOfFd(fd)] = {}
    /\ \E i \in 1..Len(Readable) : Readable[i] = fd
    /\ sweep' = IF o.running THEN <<>> ELSE After(Readable, fd)
    /\ o \in handle_message(msg)
    /\ tx_buffer' = o.tx_buffer
    /\ rx_buffer' = o.rx_buffer
    /\ app_client_lookup' = o.app_client_lookup
    /\ sim_client_lookup' = o.sim_client_lookup
    /\ running' = o.running
    /\ crashed' = o.crashed
    /\ stuck' = o.blocked
    /\ handled' = [msg |-> msg, fd |-> fd]
    /\ writes' = o.forwards \o [i \in 1..Len(o.response) |-> [msg |-> o.response[i], fd |-> fd]]
    /\ outbox' = IF o.forwards = <<>> THEN outbox
                 ELSE [outbox EXCEPT ![sock[o.forwards[1].fd]] = Append(@, o.forwards[1].msg)]
    /\ txLog' = IF msg.op = "SEND" /\ Len(o.tx_buffer) > Len(tx_buffer)
                THEN Append(txLog, Last(o.tx_buffer)) ELSE txLog
    /\ popLog' = IF /\ msg.op = "FETCH" /\ ~(msg.has_metadata /\ msg.has_src_id)
                    /\ o.response # <<>> /\ o.response[1].code = "MESSAGE"
                 THEN Append(popLog, EntryOf(o.response[1])) ELSE popLog
    /\ rxLog' = IF msg.op = "POST" /\ Len(o.rx_buffer) > Len(rx_buffer)
                THEN Append(rxLog, Last(o.rx_buffer)) ELSE rxLog
    /\ rcvLog' = IF msg.op = "RECEIVE" /\ o.response # <<>> /\ o.response[1].code = "MESSAGE"
                 THEN Append(rcvLog, EntryOf(o.response[1])) ELSE rcvLog
    /\ UNCHANGED <<cfg, listening, channel_fds, fd_lookup, backlog, sock>>

Deliver(fd, msg, o) ==
    /\ listening /\ ~crashed /\ stuck = <<>>
    /\ \E i \in 1..Len(Readable) : Readable[i] = fd
    /\ sweep' = IF o.running THEN <<>> ELSE After(Readable, fd)
    /\ o \in handle_message(msg)
    /\ tx_buffer' = o.tx_buffer
    /\ rx_buffer' = o.rx_buffer
    /\ app_client_lookup' = o.app_client_lookup
    /\ sim_client_lookup' = o.sim_client_lookup
    /\ running' = o.running
    /\ crashed' = o.crashed
    /\ stuck' = o.blocked
    /\ handled' = [msg |-> msg, fd |-> fd]
    /\ writes' = o.forwards \o [i \in 1..Len(o.response) |-> [msg |-> o.response[i], fd |-> fd]]
    /\ outbox' = IF o.forwards = <<>> THEN outbox
                 ELSE [outbox EXCEPT ![sock[o.forwards[1].fd]] = Append(@, o.forwards[1].msg)]
    /\ txLog' = IF msg.op = "SEND" /\ Len(o.tx_buffer) > Len(tx_buffer)
                THEN Append(txLog, Last(o.tx_buffer)) ELSE txLog
    /\ popLog' = IF /\ msg.op = "FETCH" /\ ~(msg.has_metadata /\ msg.has_src_id)
                    /\ o.response # <<>> /\ o.response[1].code = "MESSAGE"
                 THEN Append(popLog, EntryOf(o.response[1])) ELSE popLog
    /\ rxLog' = IF msg.op = "POST" /\ Len(o.rx_buffer) > Len(rx_buffer)
                THEN Append(rxLog, Last(o.rx_buffer)) ELSE rxLog
    /\ rcvLog' = IF msg.op = "RECEIVE" /\ o.response # <<>> /\ o.response[1].code = "MESSAGE"
                 THEN Append(rcvLog, EntryOf(o.response[1])) ELSE rcvLog
    /\ UNCHANGED <<cfg, listening, channel_fds, fd_lookup, backlog, sock>>

\* The peer of fd has closed its end (its process ended or its NSBClient was
\* destroyed): recv returns 0 on it.
HungUp(fd) == fd \in DOMAIN sock /\ pc[ClientOfFd(fd)] \in {"exited", "closed"}

\* A faulty disconnect branch: the entries the client of fd has sent, and
\* those for it, leave the buffers with it.
Disconnect_purge(fd) ==
    LET id == clientId(ClientOfFd(fd))
        Kept(e) == e.source # id /\ e.destination # id
    IN  /\ listening /\ ~crashed /\ stuck = <<>>
        /\ \E i \in 1..Len(Readable) : Readable[i] = fd
        /\ HungUp(fd)
        /\ sock' = [g \in DOMAIN sock \ {fd} |-> sock[g]]
        /\ channel_fds' = SelectSeq(channel_fds, LAMBDA g : g # fd)
        /\ sweep' = IF running THEN <<>> ELSE After(Readable, fd)
        /\ tx_buffer' = SelectSeq(tx_buffer, Kept)
        /\ rx_buffer' = SelectSeq(rx_buffer, Kept)
        /\ handled' = NoFrame
        /\ writes' = <<>>
        /\ UNCHANGED <<cfg, running, listening, crashed, stuck, fd_lookup, app_client_lookup,
                       sim_client_lookup, backlog, outbox, clientVars,
                       txLog, popLog, rxLog, rcvLog, dbVars>>

\* One visit of the loop over channel_fds that reads nothing from fd:
\* shutdown(fd, SHUT_WR); close(fd); channel_fds.erase(it).  fd_lookup and
\* the client lookups are not touched; the loop goes on with the fd that
\* followed the erased one.
\* A faulty disconnect: it also drops the registration that holds the fd.
Disconnect_forget(fd) ==
    LET Holds(d) == fd \in {d.ch_CTRL_fd, d.ch_SEND_fd, d.ch_RECV_fd}
        Rest(lookup) == [id \in {k \in DOMAIN lookup : ~Holds(lookup[k])} |-> lookup[id]]
    IN  /\ listening /\ ~crashed /\ stuck = <<>>
        /\ \E i \in 1..Len(Readable) : Readable[i] = fd
        /\ HungUp(fd)
        /\ sock' = [g \in DOMAIN sock \ {fd} |-> sock[g]]
        /\ channel_fds' = SelectSeq(channel_fds, LAMBDA g : g # fd)
        /\ sweep' = IF running THEN <<>> ELSE After(Readable, fd)
        /\ app_client_lookup' = Rest(app_client_lookup)
        /\ sim_client_lookup' = Rest(sim_client_lookup)
        /\ handled' = NoFrame
        /\ writes' = <<>>
        /\ UNCHANGED <<cfg, running, listening, crashed, stuck, fd_lookup, tx_buffer, rx_buffer,
                       backlog, outbox, clientVars, txLog, popLog, rxLog, rcvLog, dbVars>>

Disconnect(fd) ==
    /\ listening /\ ~crashed /\ stuck = <<>>
    /\ \E i \in 1..Len(Readable) : Readable[i] = fd
    /\ HungUp(fd)
    /\ sock' = [g \in DOMAIN sock \ {fd} |-> sock[g]]
    /\ channel_fds' = SelectSeq(channel_fds, LAMBDA g : g # fd)
    /\ sweep' = IF running THEN <<>> ELSE After(Readable, fd)
    /\ tx_buffer' = tx_buffer
    /\ rx_buffer' = rx_buffer
    /\ handled' = NoFrame
    /\ writes' = <<>>
    /\ UNCHANGED <<cfg, running, listening, crashed, stuck, fd_lookup, app_client_lookup,
                   sim_client_lookup, backlog, outbox, clientVars,
                   txLog, popLog, rxLog, rcvLog, dbVars>>

\* while (running) has ended: every fd of channel_fds is closed, then
\* server_fd, and start_server returns.  Connections not yet accepted go
\* with the listening socket.
Teardown ==
    /\ ~running /\ ~crashed /\ listening /\ stuck = <<>>
    /\ sock' = [g \in {h \in DOMAIN sock : \A i \in 1..Len(channel_fds) : channel_fds[i] # h}
                  |-> sock[g]]
    /\ listening' = FALSE
    /\ sweep' = <<>>
    /\ backlog' = <<>>
    /\ handled' = NoFrame
    /\ writes' = <<>>
    /\ UNCHANGED <<cfg, running, crashed, stuck, channel_fds, fd_lookup, app_client_lookup,
                   sim_client_lookup, tx_buffer, rx_buffer, outbox, clientVars,
                   txLog, popLog, rxLog, rcvLog, dbVars>>

\* A step in which the daemon does nothing.
DaemonIdle ==
    /\ handled' = NoFrame
    /\ writes' = <<>>
    /\ UNCHANGED <<daemonVars, txLog, popLog, rxLog, rcvLog>>

(***************************************************************************)
(* The client runtime (cpp/src/nsb_client.cc): the frames its calls write  *)
(* and the value a call returns for the frame it reads back.               *)
(***************************************************************************)
DefaultConfig == [SYSTEM_MODE |-> "PULL", SIMULATOR_MODE |-> "SYSTEM_WIDE", USE_DB |-> FALSE]

\* Config(nsbResponse)
Config(msg) ==
    [SYSTEM_MODE |-> msg.config.sys_mode, SIMULATOR_MODE |-> msg.config.sim_mode,
     USE_DB |-> msg.config.use_db]

(***************************************************************************)
(* The offload store (DBConnector and RedisConnector of cpp/src/nsb.cc).   *)
(* A key is the triple that generatePayloadId joins with "-"; the empty    *)
(* string is NoKey.                                                        *)
(***************************************************************************)
NoKey == <<>>

\* value.c_str() handed to redisCommand's %s: the bytes before the first 0.
c_str(value) ==
    IF \E i \in 1..Len(value) : value[i] = 0
    THEN SubSeq(value, 1, (CHOOSE i \in 1..Len(value) :
                              value[i] = 0 /\ \A j \in 1..(i - 1) : value[j] # 0) - 1)
    ELSE value

\* RedisConnector::isConnected
isConnected(c) == db_online[c]

\* DBConnector::generatePayloadId: plctr = (plctr + 1) & 0xFFFFF, then
\* to_string(tms) + "-" + clientId + "-" + to_string(plctr).
generatePayloadId(c) == <<clock, clientId(c), (plctr[c] + 1) % CounterWrap>>

\* RedisConnector::store(value): the key it returns and what it leaves.
store(c, value) ==
    IF ~isConnected(c) THEN [key |-> NoKey, redis |-> redis, plctr |-> plctr]
    ELSE LET key == generatePayloadId(c)
         IN  [key |-> key,
              redis |-> [k \in DOMAIN redis \cup {key} |->
                            IF k = key THEN c_str(value) ELSE redis[k]],
              plctr |-> [plctr EXCEPT ![c] = key[3]]]

\* RedisConnector::checkOut(key): GETDEL; the empty string on a miss.
checkOut(c, key) ==
    IF isConnected(c) /\ key \in DOMAIN redis
    THEN [value |-> redis[key], redis |-> [k \in DOMAIN redis \ {key} |-> redis[k]]]
    ELSE [value |-> <<>>, redis |-> redis]

\* A call's use of the store: send and post store the payload when USE_DB
\* is set; fetch and receive check out the key of a MESSAGE they were given.
Put(c, payload) ==
    IF ccfg[c].USE_DB
    THEN /\ redis' = store(c, payload).redis
         /\ plctr' = store(c, payload).plctr
         /\ puts' = Append(puts, [key |-> store(c, payload).key, value |-> payload, by |-> c])
         /\ UNCHANGED <<db_online, clock, takes>>
    ELSE UNCHANGED dbVars

Carries(response, ops) ==
    /\ response # <<>>
    /\ response[1].op \in ops
    /\ response[1].code = "MESSAGE"

Take(c, response, ops) ==
    IF ccfg[c].USE_DB /\ Carries(response, ops)
    THEN /\ redis' = checkOut(c, response[1].msg_key).redis
         /\ takes' = Append(takes, [key |-> response[1].msg_key, by |-> c,
                                    hit |-> isConnected(c) /\ response[1].msg_key \in DOMAIN redis])
         /\ UNCHANGED <<plctr, db_online, clock, puts>>
    ELSE UNCHANGED dbVars

initFrame(c) ==
    [Manifest("INIT", originIndicator(c), "SUCCESS") EXCEPT
        !.has_intro = TRUE,
        !.intro = [identifier |-> clientId(c), ch_ctrl |-> Port(c, "CTRL"),
                   ch_send |-> Port(c, "SEND"), ch_recv |-> Port(c, "RECV")]]

pingFrame(c) == Manifest("PING", originIndicator(c), "SUCCESS")

exitFrame(c) == Manifest("EXIT", originIndicator(c), "SUCCESS")

\* The frame send writes: the payload inline, or the key store returned.
sendFrame(c, destId, payload) ==
    LET m == SetMetadata(Manifest("SEND", originIndicator(c), "MESSAGE"),
                         clientId(c), destId, Len(payload))
    IN  IF ccfg[c].USE_DB THEN [m EXCEPT !.msg_key = store(c, payload).key]
        ELSE [m EXCEPT !.payload = payload]

postFrame(c, srcId, destId, payload) ==
    LET m == SetMetadata(Manifest("POST", originIndicator(c), "MESSAGE"),
                         clientId(c), destId, Len(payload))
    IN  IF ccfg[c].USE_DB THEN [m EXCEPT !.msg_key = store(c, payload).key]
        ELSE [m EXCEPT !.payload = payload]

receiveFrame(c, destId) ==
    SetDestId(Manifest("RECEIVE", originIndicator(c), "SUCCESS"),
              IF destId = nullptr THEN clientId(c) ELSE destId)

fetchFrame(c, srcId) ==
    LET m == Manifest("FETCH", originIndicator(c), "SUCCESS")
    IN  IF ccfg[c].SIMULATOR_MODE = "SYSTEM_WIDE"
        THEN IF srcId # nullptr THEN SetSrcId(m, srcId) ELSE m
        ELSE SetSrcId(m, clientId(c))

\* The earlier runtime (src/src/nsb_client.cc) speaks the same protocol: its
\* receive leaves dest_id out when none is given, and its post takes the
\* source, the size and a success flag from the caller.
receiveFrameV0(c, destId) ==
    LET m == Manifest("RECEIVE", originIndicator(c), "SUCCESS")
    IN  IF destId # nullptr THEN SetDestId(m, destId) ELSE m

postFrameV0(c, srcId, destId, payloadObj, payloadSize, success) ==
    [SetMetadata(Manifest("POST", originIndicator(c),
                          IF success THEN "MESSAGE" ELSE "NO_MESSAGE"),
                 srcId, destId, payloadSize) EXCEPT !.payload = payloadObj]

\* What fetch returns for the frames read from RECV (none on a timeout).
fetchResult(c, response) ==
    IF response = <<>> THEN BlankEntry
    ELSE LET m == response[1]
         IN  IF m.op # "FETCH" /\ m.op # "FORWARD" THEN BlankEntry
             ELSE IF m.code = "MESSAGE"
             THEN MessageEntry(m.src_id, m.dest_id,
                               IF ccfg[c].USE_DB THEN checkOut(c, m.msg_key).value
                               ELSE m.payload,
                               m.payload_size)
             ELSE BlankEntry

\* What receive returns.
receiveResult(c, response) ==
    IF response = <<>> THEN BlankEntry
    ELSE LET m == response[1]
         IN  IF m.op # "RECEIVE" /\ m.op # "FORWARD" THEN BlankEntry
             ELSE IF m.code = "MESSAGE"
             THEN MessageEntry(m.src_id, m.dest_id,
                               IF ccfg[c].USE_DB THEN checkOut(c, m.msg_key).value
                               ELSE m.payload,
                               m.payload_size)
             ELSE BlankEntry

\* receive logs *destId on a NO_MESSAGE reply; in PUSH mode a null destId is
\* still null there.  The process may die of it.
receiveDies(c, destId, response) ==
    IF /\ response # <<>> /\ response[1].op \in {"RECEIVE", "FORWARD"}
       /\ response[1].code = "NO_MESSAGE"
       /\ ccfg[c].SYSTEM_MODE = "PUSH" /\ destId = nullptr
    THEN {TRUE, FALSE}
    ELSE {FALSE}

Call(op, srcId, destId, payload, ret) ==
    [op |-> op, srcId |-> srcId, destId |-> destId, payload |-> payload, ret |-> ret]

\* Frames are kept within the bounds of the model.
Bounded(msg) ==
    /\ msg.op = "SEND" => Len(txLog) < MaxSend
    /\ msg.op = "POST" /\ msg.code = "MESSAGE" => Len(rxLog) < MaxPost
    /\ msg.op = "RECEIVE" => Len(rcvLog) < MaxReceive
    /\ msg.op \in {"SEND", "POST"} => \A p \in Ports : Len(outbox[p]) < MaxOutbox

(***************************************************************************)
(* Client steps.                                                           *)
(***************************************************************************)
\* SocketInterface::connectToServer: the three channels connect in order.
connectToServer(c) ==
    /\ pc[c] = "new"
    /\ backlog' = backlog \o <<Port(c, "CTRL"), Port(c, "SEND"), Port(c, "RECV")>>
    /\ pc' = [pc EXCEPT ![c] = "connected"]
    /\ DaemonIdle
    /\ UNCHANGED <<sock, outbox, ccfg, calls, waiting, dbVars>>

\* A faulty initialize: the client goes on after a reply with code FAILURE.
initialize_on(c) ==
    /\ pc[c] = "connected"
    /\ Accepted(c, "CTRL")
    /\ \E o \in handle_message(initFrame(c)) :
          /\ Deliver(FdOf(c, "CTRL"), initFrame(c), o)
          /\ pc' = [pc EXCEPT ![c] = "ready"]
          /\ ccfg' = [ccfg EXCEPT ![c] =
                         IF /\ o.response # <<>> /\ o.response[1].op = "INIT"
                            /\ o.response[1].code = "SUCCESS" /\ o.response[1].has_config
                         THEN Config(o.response[1]) ELSE @]
    /\ UNCHANGED <<calls, waiting, dbVars>>

\* NSBClient::initialize.  The INIT is written as soon as the client's
\* connects have returned; the daemon reads it once CTRL is accepted, which
\* may be before it has accepted SEND and RECV.
initialize(c) ==
    /\ pc[c] = "connected"
    /\ Accepted(c, "CTRL")
    /\ \E o \in handle_message(initFrame(c)) :
          /\ Deliver(FdOf(c, "CTRL"), initFrame(c), o)
          /\ pc' = [pc EXCEPT ![c] =
                       IF /\ o.response # <<>> /\ o.response[1].op = "INIT"
                          /\ \/ o.response[1].code # "SUCCESS"
                             \/ /\ o.response[1].has_config
                                /\ Config(o.response[1]).USE_DB
                                /\ ~isConnected(c)
                       THEN "exited" ELSE "ready"]
          /\ ccfg' = [ccfg EXCEPT ![c] =
                         IF /\ o.response # <<>> /\ o.response[1].op = "INIT"
                            /\ o.response[1].code = "SUCCESS" /\ o.response[1].has_config
                         THEN Config(o.response[1]) ELSE @]
    /\ UNCHANGED <<calls, waiting, dbVars>>

ping(c) ==
    /\ pc[c] = "ready"
    /\ Accepted(c, "CTRL")
    /\ \E o \in handle_message(pingFrame(c)) : Deliver(FdOf(c, "CTRL"), pingFrame(c), o)
    /\ UNCHANGED <<clientVars, dbVars>>

exit(c) ==
    /\ pc[c] = "ready"
    /\ Accepted(c, "CTRL")
    /\ \E o \in handle_message(exitFrame(c)) : Deliver(FdOf(c, "CTRL"), exitFrame(c), o)
    /\ UNCHANGED <<clientVars, dbVars>>

\* ~NSBClient: closeConnection shuts down and closes the three channels.
closeConnection(c) ==
    /\ pc[c] = "ready"
    /\ pc' = [pc EXCEPT ![c] = "closed"]
    /\ DaemonIdle
    /\ UNCHANGED <<netVars, ccfg, calls, waiting, dbVars>>

\* A frame msg written by client c on channel ch and read by the daemon; a
\* response is read back by c and its value is of no further use here.
Frame(c, ch, msg) ==
    /\ pc[c] = "ready"
    /\ Accepted(c, ch)
    /\ Bounded(msg)
    /\ \E o \in handle_message(msg) : Deliver(FdOf(c, ch), msg, o)
    /\ UNCHANGED <<clientVars, dbVars>>

\* A SEND or POST frame as any peer may write it on its SEND connection: the
\* originator is whatever the peer sets, and the metadata (src_id, dest_id,
\* payload_size) may be left out.
rawFrame(c, op, og, meta, destId, payload) ==
    LET m == [Manifest(op, og, "MESSAGE") EXCEPT !.payload = payload]
    IN  IF meta THEN SetMetadata(m, clientId(c), destId, Len(payload)) ELSE m

RawFrame(c, op, og, meta, destId, payload) ==
    /\ op \in {"SEND", "POST"}
    /\ Frame(c, "SEND", rawFrame(c, op, og, meta, destId, payload))

\* NSBAppClient::send: the frame is written whatever key store returned.
send(c, destId, payload) ==
    /\ c \in AppClients
    /\ pc[c] = "ready"
    /\ Accepted(c, "SEND")
    /\ Bounded(sendFrame(c, destId, payload))
    /\ ccfg[c].USE_DB => Len(puts) < MaxPut
    /\ \E o \in handle_message(sendFrame(c, destId, payload)) :
          Deliver(FdOf(c, "SEND"), sendFrame(c, destId, payload), o)
    /\ Put(c, payload)
    /\ UNCHANGED clientVars

post(c, srcId, destId, payload) ==
    /\ c \in SimClients
    /\ pc[c] = "ready"
    /\ Accepted(c, "SEND")
    /\ Len(calls[c]) < MaxCalls
    /\ ccfg[c].USE_DB => Len(puts) < MaxPut
    /\ Put(c, payload)
    /\ Bounded(postFrame(c, srcId, destId, payload))
    /\ \E o \in handle_message(postFrame(c, srcId, destId, payload)) :
          Deliver(FdOf(c, "SEND"), postFrame(c, srcId, destId, payload), o)
    /\ calls' = [calls EXCEPT ![c] = Append(@, Call("post", srcId, destId, payload, BlankEntry))]
    /\ UNCHANGED <<pc, ccfg, waiting>>

\* The frame a call reads from RECV in PUSH mode: the oldest one waiting, or
\* none when the timeout expires first.
Waiting(c) == IF outbox[Port(c, "RECV")] = <<>> THEN <<>> ELSE <<Head(outbox[Port(c, "RECV")])>>

TakeWaiting(c) ==
    /\ outbox' = [outbox EXCEPT ![Port(c, "RECV")] = IF @ = <<>> THEN @ ELSE Tail(@)]
    /\ DaemonIdle
    /\ UNCHANGED <<backlog, sock>>

fetch(c, srcId) ==
    /\ c \in SimClients
    /\ pc[c] = "ready"
    /\ Accepted(c, "RECV")
    /\ Len(calls[c]) < MaxCalls
    /\ IF ccfg[c].SYSTEM_MODE = "PULL"
       THEN \E o \in handle_message(fetchFrame(c, srcId)) :
               /\ Deliver(FdOf(c, "RECV"), fetchFrame(c, srcId), o)
               /\ calls' = [calls EXCEPT ![c] =
                     Append(@, Call("fetch", srcId, nullptr, <<>>, fetchResult(c, o.response)))]
               /\ Take(c, o.response, {"FETCH", "FORWARD"})
       ELSE /\ TakeWaiting(c)
            /\ calls' = [calls EXCEPT ![c] =
                  Append(@, Call("fetch", srcId, nullptr, <<>>, fetchResult(c, Waiting(c))))]
            /\ Take(c, Waiting(c), {"FETCH", "FORWARD"})
    /\ UNCHANGED <<pc, ccfg, waiting>>

\* A faulty receive: it writes its RECEIVE request whatever the system mode.
receive_asks(c, destId) ==
    /\ c \in AppClients
    /\ pc[c] = "ready"
    /\ Accepted(c, "RECV")
    /\ Len(calls[c]) < MaxCalls
    /\ Bounded(receiveFrame(c, destId))
    /\ \E o \in handle_message(receiveFrame(c, destId)) :
          /\ Deliver(FdOf(c, "RECV"), receiveFrame(c, destId), o)
          /\ calls' = [calls EXCEPT ![c] =
                Append(@, Call("receive", nullptr, destId, <<>>,
                               receiveResult(c, o.response)))]
          /\ Take(c, o.response, {"RECEIVE", "FORWARD"})
          /\ pc' = pc
    /\ UNCHANGED <<ccfg, waiting>>

receive(c, destId) ==
    /\ c \in AppClients
    /\ pc[c] = "ready"
    /\ Accepted(c, "RECV")
    /\ Len(calls[c]) < MaxCalls
    /\ IF ccfg[c].SYSTEM_MODE = "PULL"
       THEN /\ Bounded(receiveFrame(c, destId))
            /\ \E o \in handle_message(receiveFrame(c, destId)) :
                  /\ Deliver(FdOf(c, "RECV"), receiveFrame(c, destId), o)
                  /\ calls' = [calls EXCEPT ![c] =
                        Append(@, Call("receive", nullptr, destId, <<>>,
                                       receiveResult(c, o.response)))]
                  /\ Take(c, o.response, {"RECEIVE", "FORWARD"})
                  /\ pc' = pc
       ELSE /\ TakeWaiting(c)
            /\ calls' = [calls EXCEPT ![c] =
                  Append(@, Call("receive", nullptr, destId, <<>>,
                                 receiveResult(c, Waiting(c))))]
            /\ Take(c, Waiting(c), {"RECEIVE", "FORWARD"})
            /\ \E died \in receiveDies(c, destId, Waiting(c)) :
                  pc' = [pc EXCEPT ![c] = IF died THEN "exited" ELSE @]
    /\ UNCHANGED <<ccfg, waiting>>

\* The clock moves on; the int that generatePayloadId keeps of it comes
\* round again.
Tick ==
    /\ clock' = (clock + 1) % (MaxTime + 1)
    /\ DaemonIdle
    /\ UNCHANGED <<netVars, clientVars, redis, plctr, db_online, puts, takes>>

\* The connection of c to the Redis server breaks: its context is in error
\* from then on.
RedisDown(c) ==
    /\ pc[c] = "ready"
    /\ ccfg[c].USE_DB
    /\ db_online[c]
    /\ db_online' = [db_online EXCEPT ![c] = FALSE]
    /\ DaemonIdle
    /\ UNCHANGED <<netVars, clientVars, redis, plctr, clock, puts, takes>>

\* Frames on the wire, whichever runtime wrote them.
FetchFrame(c, srcId) == c \in SimClients /\ Frame(c, "RECV", fetchFrame(c, srcId))

ReceiveFrame(c, destId) == c \in AppClients /\ Frame(c, "RECV", receiveFrameV0(c, destId))

PostFrame(c, srcId, destId, payload, success) ==
    /\ c \in SimClients
    /\ Frame(c, "SEND", postFrameV0(c, srcId, destId, payload, Len(payload), success))

\* An INIT frame as the daemon may read it from a CTRL connection: any
\* originator, with or without IntroDetails.  The runtime that wrote it is
\* not the one above; what it does next is left open.
introFrame(c, og, intro) ==
    [Manifest("INIT", og, "SUCCESS") EXCEPT
        !.has_intro = intro,
        !.intro = IF intro THEN initFrame(c).intro ELSE NoIntro]

IntroFrame(c, og, intro) ==
    /\ pc[c] = "connected"
    /\ Accepted(c, "CTRL")
    /\ \E o \in handle_message(introFrame(c, og, intro)) :
          Deliver(FdOf(c, "CTRL"), introFrame(c, og, intro), o)
    /\ UNCHANGED <<clientVars, dbVars>>

\* A frame whose op the daemon has no handler for: a FORWARD frame, as the
\* daemon writes them, sent back to it.
forwardFrame(c, destId, payload) ==
    [SetMetadata(Manifest("FORWARD", originIndicator(c), "MESSAGE"),
                 clientId(c), destId, Len(payload)) EXCEPT !.payload = payload]

ForwardFrame(c, ch, destId, payload) == Frame(c, ch, forwardFrame(c, destId, payload))

(***************************************************************************)
(* Specifications.                                                         *)
(***************************************************************************)
\* The daemon has been constructed with config and listens; no client has
\* connected yet.
InitWith(config) ==
    /\ cfg = config
    /\ running = TRUE
    /\ listening = TRUE
    /\ sweep = <<>>
    /\ crashed = FALSE
    /\ stuck = <<>>
    /\ channel_fds = <<>>
    /\ fd_lookup = EmptyMap
    /\ app_client_lookup = EmptyMap
    /\ sim_client_lookup = EmptyMap
    /\ tx_buffer = <<>>
    /\ rx_buffer = <<>>
    /\ backlog = <<>>
    /\ sock = EmptyMap
    /\ outbox = [p \in Ports |-> <<>>]
    /\ pc = [c \in Clients |-> "new"]
    /\ ccfg = [c \in Clients |-> DefaultConfig]
    /\ calls = [c \in Clients |-> <<>>]
    /\ waiting = [c \in Clients |-> {}]
    /\ handled = NoFrame
    /\ writes = <<>>
    /\ txLog = <<>>
    /\ popLog = <<>>
    /\ rxLog = <<>>
    /\ rcvLog = <<>>
    /\ redis = EmptyMap
    /\ plctr = [c \in Clients |-> 0]
    /\ db_online = [c \in Clients |-> TRUE]
    /\ clock = 0
    /\ puts = <<>>
    /\ takes = <<>>

Configs ==
    [SYSTEM_MODE : {"PULL", "PUSH"}, SIMULATOR_MODE : {"SYSTEM_WIDE", "PER_NODE"},
     USE_DB : {FALSE}]

Init == \E config \in Configs : InitWith(config)

Others(c) == AppIds \ {clientId(c)}

Next ==
    \/ Accept
    \/ \E c \in Clients : connectToServer(c)
    \/ \E c \in Clients : initialize(c)
    \/ \E c \in Clients : ping(c)
    \/ \E c \in Clients : exit(c)
    \/ \E c \in AppClients : \E d \in Others(c), p \in Payloads : send(c, d, p)
    \/ \E c \in SimClients, s \in AppIds \cup {nullptr} : fetch(c, s)
    \/ \E c \in SimClients, s \in AppIds, d \in AppIds, p \in Payloads : post(c, s, d, p)
    \/ \E c \in AppClients, d \in AppIds \cup {nullptr} : receive(c, d)
    \/ \E c \in SimClients, s \in AppIds \cup {nullptr} : FetchFrame(c, s)
    \/ \E c \in AppClients, d \in AppIds \cup {nullptr} : ReceiveFrame(c, d)
    \/ \E c \in SimClients, s \in AppIds, d \in AppIds, p \in Payloads, ok \in BOOLEAN :
          PostFrame(c, s, d, p, ok)
    \/ \E c \in Clients, og \in Originators, intro \in BOOLEAN : IntroFrame(c, og, intro)
    \/ \E c \in Clients, ch \in {"CTRL", "SEND", "RECV"}, d \in AppIds, p \in Payloads :
          ForwardFrame(c, ch, d, p)

Spec == Init /\ [][Next]_vars

\* Clients of a group are started one after the other, in the order of
\* ClientSeq, each once the one before it has returned from its constructor
\* (nsb_test.cc constructs its clients that way).
InTurn(c, group) ==
    \A i \in 1..(ClientIndex(c) - 1) :
        ClientSeq[i] \in group => pc[ClientSeq[i]] \in {"ready", "exited", "closed"}

\* The daemon has accepted all three connections of c.
Settled(c) == Accepted(c, "CTRL") /\ Accepted(c, "SEND") /\ Accepted(c, "RECV")

PullConfig == [SYSTEM_MODE |-> "PULL", SIMULATOR_MODE |-> "SYSTEM_WIDE", USE_DB |-> FALSE]

\* PULL mode, the SEND and FETCH side: two apps send, one system-wide
\* simulator fetches.  The INIT of a client is read after its connections
\* have been accepted.
TxClients == {"appA", "appB", "simS"}

InitPull == InitWith(PullConfig)

NextTx ==
    \/ Accept
    \/ \E c \in TxClients : InTurn(c, TxClients) /\ connectToServer(c)
    \/ \E c \in TxClients : Settled(c) /\ initialize(c)
    \/ \E c \in TxClients \cap AppClients : \E d \in Others(c), p \in Payloads : send(c, d, p)
    \/ \E c \in TxClients \cap SimClients, s \in AppIds \cup {nullptr} : FetchFrame(c, s)

SpecTx == InitPull /\ [][NextTx]_vars

\* PULL mode, the POST and RECEIVE side: a simulator posts, two apps ask for
\* their messages, with and without a dest_id.
RxClients == {"appA", "appB", "simS"}

NextRx ==
    \/ Accept
    \/ \E c \in RxClients : InTurn(c, RxClients) /\ connectToServer(c)
    \/ \E c \in RxClients : Settled(c) /\ initialize(c)
    \/ \E c \in RxClients \cap SimClients, s \in AppIds, p \in Payloads, ok \in BOOLEAN :
          \E d \in AppIds \ {s} : PostFrame(c, s, d, p, ok)
    \/ \E c \in RxClients \cap AppClients, d \in AppIds \cup {nullptr} : ReceiveFrame(c, d)

SpecRx == InitPull /\ [][NextRx]_vars

\* PULL mode, a burst: the apps send MaxSend messages, then the simulator
\* makes its fetch calls.
BurstClients == {"appA", "appB", "simS"}

NextBurst ==
    \/ Accept
    \/ \E c \in BurstClients : InTurn(c, BurstClients) /\ connectToServer(c)
    \/ \E c \in BurstClients : Settled(c) /\ initialize(c)
    \/ \E c \in BurstClients \cap AppClients : \E d \in Others(c), p \in Payloads : send(c, d, p)
    \/ \E c \in BurstClients \cap SimClients, s \in AppIds \cup {nullptr} :
          Len(txLog) = MaxSend /\ fetch(c, s)

SpecBurst == InitPull /\ [][NextBurst]_vars

\* PULL mode end to end: apps send, the simulator fetches and posts back what
\* it fetched, with the source and destination of the fetched entry, and the
\* apps receive.
E2EClients == {"appA", "appB", "simS"}

Fetched(c) == {calls[c][k].ret : k \in {j \in 1..Len(calls[c]) : calls[c][j].op = "fetch"}}

NextE2E ==
    \/ Accept
    \/ \E c \in E2EClients : InTurn(c, E2EClients) /\ connectToServer(c)
    \/ \E c \in E2EClients : Settled(c) /\ initialize(c)
    \/ \E c \in E2EClients \cap AppClients : \E d \in Others(c), p \in Payloads :
          Len(txLog) < MaxCycle /\ send(c, d, p)
    \/ \E c \in E2EClients \cap SimClients, s \in AppIds \cup {nullptr} : fetch(c, s)
    \/ \E c \in E2EClients \cap SimClients : \E e \in Fetched(c) :
          exists(e) /\ post(c, e.source, e.destination, e.payload_obj)
    \/ \E c \in E2EClients \cap AppClients, d \in AppIds \cup {nullptr} :
          Len(calls[c]) < MaxCycle /\ receive(c, d)

SpecE2E == InitPull /\ [][NextE2E]_vars

\* PUSH mode, system-wide or per-node: an app sends, simulators post (also
\* with code NO_MESSAGE), and both sides read what was forwarded to them.  An
\* INIT may be read before the daemon has accepted the client's SEND and
\* RECV connections.
InitPush ==
    \E m \in {"SYSTEM_WIDE", "PER_NODE"} :
        InitWith([SYSTEM_MODE |-> "PUSH", SIMULATOR_MODE |-> m, USE_DB |-> FALSE])

PushClients == {"appA", "simS", "simA"}

NextPush ==
    \/ Accept
    \/ \E c \in PushClients : InTurn(c, PushClients) /\ connectToServer(c)
    \/ \E c \in PushClients : initialize(c)
    \/ \E c \in PushClients \cap AppClients : \E d \in Others(c), p \in Payloads : send(c, d, p)
    \/ \E c \in PushClients \cap SimClients, s \in AppIds, p \in Payloads, ok \in BOOLEAN :
          \E d \in AppIds \ {s} : PostFrame(c, s, d, p, ok)
    \/ \E c \in PushClients \cap SimClients : Len(calls[c]) < MaxCycle /\ fetch(c, nullptr)
    \/ \E c \in PushClients \cap AppClients : Len(calls[c]) < MaxCycle /\ receive(c, nullptr)

SpecPush == InitPush /\ [][NextPush]_vars

\* Registration, in every configuration: two apps under one identifier and
\* two simulators start one after the other; an INIT may be read before the
\* client's SEND and RECV connections are accepted, and INIT frames without
\* IntroDetails or with another originator arrive too.  A simulator posts
\* to the apps' identifier.
InitClients == {"appA", "simS", "simA", "appA2"}

Malformed(c, og, intro) == og \notin {"APP_CLIENT", "SIM_CLIENT"} \/ ~intro

NextInit ==
    \/ Accept
    \/ \E c \in InitClients : InTurn(c, InitClients) /\ connectToServer(c)
    \/ \E c \in InitClients : initialize(c)
    \/ \E c \in InitClients, og \in Originators, intro \in BOOLEAN :
          Malformed(c, og, intro) /\ IntroFrame(c, og, intro)
    \/ \E c \in InitClients : ping(c)
    \/ \E c \in InitClients \cap SimClients, p \in Payloads :
          Len(rxLog) < MaxCycle /\ PostFrame(c, "B", "A", p, TRUE)

SpecInit == Init /\ [][NextInit]_vars

\* Frames of every op, in every configuration: an app and a simulator whose
\* connections were accepted before their INIT was read.
WireClients == {"appA", "simS"}

NextWire ==
    \/ Accept
    \/ \E c \in WireClients : InTurn(c, WireClients) /\ connectToServer(c)
    \/ \E c \in WireClients : Settled(c) /\ initialize(c)
    \/ \E c \in WireClients : ping(c)
    \/ \E c \in WireClients : exit(c)
    \/ \E c \in WireClients \cap AppClients : \E d \in Others(c), p \in Payloads :
          Len(txLog) < MaxWire /\ send(c, d, p)
    \/ \E c \in WireClients \cap SimClients, s \in AppIds \cup {nullptr} : FetchFrame(c, s)
    \/ \E c \in WireClients \cap SimClients, p \in Payloads, ok \in BOOLEAN :
          Len(rxLog) < MaxWire /\ PostFrame(c, "B", "A", p, ok)
    \/ \E c \in WireClients \cap AppClients, d \in AppIds \cup {nullptr} : ReceiveFrame(c, d)
    \/ \E c \in WireClients, ch \in {"SEND", "RECV"}, p \in Payloads :
          ForwardFrame(c, ch, "B", p)

SpecWire == Init /\ [][NextWire]_vars

\* PULL mode with the offload store: an app and a simulator that has the
\* app's identifier; the app sends payloads that may hold a zero byte, the
\* simulator fetches and posts back what it fetched, the app receives what
\* is for the destination.  The clock may or may not move between two calls
\* of store, and a client's connection to Redis may break.
DbConfig == [SYSTEM_MODE |-> "PULL", SIMULATOR_MODE |-> "SYSTEM_WIDE", USE_DB |-> TRUE]

InitDb == InitWith(DbConfig)

DbClients == {"appA", "simA"}

BinaryPayloads == {<<1>>, <<2, 0>>}

NextDb ==
    \/ Accept
    \/ \E c \in DbClients : InTurn(c, DbClients) /\ connectToServer(c)
    \/ \E c \in DbClients : Settled(c) /\ initialize(c)
    \/ \E c \in DbClients \cap AppClients : \E p \in BinaryPayloads : send(c, "B", p)
    \/ \E c \in DbClients \cap SimClients : Len(calls[c]) < MaxPut /\ fetch(c, nullptr)
    \/ \E c \in DbClients \cap SimClients : \E e \in Fetched(c) :
          exists(e) /\ Len(rxLog) < MaxWire /\ post(c, e.source, e.destination, e.payload_obj)
    \/ \E c \in DbClients \cap AppClients : Len(calls[c]) < MaxWire /\ receive(c, "B")
    \/ Tick
    \/ \E c \in DbClients : RedisDown(c)

SpecDb == InitDb /\ [][NextDb]_vars

\* PULL mode, SEND and POST frames as they may come off the wire: with any
\* originator, with or without metadata, with an empty destination.
RawClients == {"appA", "simS"}

NextRaw ==
    \/ Accept
    \/ \E c \in RawClients : InTurn(c, RawClients) /\ connectToServer(c)
    \/ \E c \in RawClients : Settled(c) /\ initialize(c)
    \/ \E c \in RawClients \cap AppClients : \E d \in {"", "B"}, p \in Payloads :
          Len(txLog) < MaxWire /\ send(c, d, p)
    \/ \E c \in RawClients \cap SimClients, d \in {"", "A"}, p \in Payloads :
          Len(rxLog) < MaxWire /\ post(c, "B", d, p)
    \/ \E c \in RawClients, op \in {"SEND", "POST"}, og \in Originators, meta \in BOOLEAN :
          /\ Len(txLog) < MaxWire /\ Len(rxLog) < MaxWire
          /\ RawFrame(c, op, og, meta, "B", <<1>>)
    \/ \E c \in RawClients \cap SimClients : FetchFrame(c, nullptr)
    \/ \E c \in RawClients \cap AppClients : ReceiveFrame(c, "B")

SpecRaw == InitPull /\ [][NextRaw]_vars

\* Connections that end, in every configuration: an app and a simulator
\* start one after the other and may be destroyed; the daemon notices each
\* closed connection, is stopped by an EXIT and tears down.
CloseClients == {"appA", "simS"}

\* closeConnection closes CTRL, SEND, RECV in this order and the loop visits
\* the fds in the order they were accepted in.
InOrder(fd) == \A g \in DOMAIN sock : (g < fd /\ ClientOfFd(g) = ClientOfFd(fd)) => ~HungUp(g)

NextClose ==
    \/ Accept
    \/ \E c \in CloseClients : InTurn(c, CloseClients) /\ connectToServer(c)
    \/ \E c \in CloseClients : Settled(c) /\ initialize(c)
    \/ \E c \in CloseClients \cap AppClients : \E d \in Others(c), p \in Payloads :
          Len(txLog) < MaxCycle /\ send(c, d, p)
    \/ \E c \in CloseClients \cap SimClients : FetchFrame(c, nullptr)
    \/ \E c \in CloseClients \cap SimClients, p \in Payloads :
          Len(rxLog) < MaxCycle /\ PostFrame(c, "B", "A", p, TRUE)
    \/ \E c \in CloseClients \cap AppClients : ReceiveFrame(c, "A")
    \/ \E c \in CloseClients : closeConnection(c)
    \/ \E fd \in DOMAIN sock : InOrder(fd) /\ Disconnect(fd)
    \/ \E c \in CloseClients : exit(c)
    \/ Teardown

SpecClose == Init /\ [][NextClose]_vars

\* The loop's select wakes up at least every 10 seconds, so a stopped daemon
\* that is not held by a handler goes on to its teardown.
SpecCloseFair == SpecClose /\ WF_vars(Teardown)

\* PULL mode with per-node simulators: two apps send to each other and the
\* simulator of node A fetches, with and without a source of its choice.
NodeConfig == [SYSTEM_MODE |-> "PULL", SIMULATOR_MODE |-> "PER_NODE", USE_DB |-> FALSE]

InitNode == InitWith(NodeConfig)

NodeClients == {"appA", "appB", "simA"}

NextNode ==
    \/ Accept
    \/ \E c \in NodeClients : InTurn(c, NodeClients) /\ connectToServer(c)
    \/ \E c \in NodeClients : Settled(c) /\ initialize(c)
    \/ \E c \in NodeClients \cap AppClients : \E d \in Others(c), p \in Payloads :
          Len(txLog) < MaxWire /\ send(c, d, p)
    \/ \E c \in NodeClients \cap SimClients, s \in AppIds \cup {nullptr} : fetch(c, s)

SpecNode == InitNode /\ [][NextNode]_vars

\* The client calls in every configuration: an app and a simulator send,
\* post, fetch, receive and ping.
NextMode ==
    \/ Accept
    \/ \E c \in CloseClients : InTurn(c, CloseClients) /\ connectToServer(c)
    \/ \E c \in CloseClients : Settled(c) /\ initialize(c)
    \/ \E c \in CloseClients : ping(c)
    \/ \E c \in CloseClients \cap AppClients, p \in Payloads :
          Len(txLog) < MaxCycle /\ send(c, "B", p)
    \/ \E c \in CloseClients \cap SimClients, p \in Payloads :
          Len(calls[c]) < MaxWire /\ post(c, "B", "A", p)
    \/ \E c \in CloseClients \cap SimClients, s \in {"A", nullptr} :
          Len(calls[c]) < MaxWire /\ fetch(c, s)
    \/ \E c \in CloseClients \cap AppClients, d \in {"A", nullptr} :
          Len(calls[c]) < MaxWire /\ receive(c, d)

SpecMode == Init /\ [][NextMode]_vars

(***************************************************************************)
(* The daemon of src/nsb_daemon.cc: the same server loop without INIT,     *)
(* lookups, store or PUSH mode; SEND and POST buffer, FETCH and RECEIVE    *)
(* read the buffers.  Its handlers carry the suffix V0.                    *)
(***************************************************************************)
\* What a read of std::list::front() on an empty list can produce: the
\* sentinel node's bytes taken as a MessageEntry.
GarbageEntries == {BlankEntry, MessageEntry("B", "A", <<1>>, 0), MessageEntry("", "A", <<>>, 0)}

handle_sendV0(msg) ==
    {[Unchanged EXCEPT !.tx_buffer =
         Append(tx_buffer, MessageEntry(msg.src_id, msg.dest_id, msg.payload, 0))]}

handle_postV0(msg) ==
    IF msg.code = "MESSAGE"
    THEN {[Unchanged EXCEPT !.rx_buffer =
              Append(rx_buffer, MessageEntry(msg.src_id, msg.dest_id, msg.payload, 0))]}
    ELSE {Unchanged}

\* The reply both readers build from the entry they hold.
ReplyV0(op, entry) ==
    IF entry.source # ""
    THEN [SetMetadata(Manifest(op, "DAEMON", "MESSAGE"), entry.source, entry.destination,
                      Len(c_str(entry.payload_obj))) EXCEPT !.payload = entry.payload_obj]
    ELSE Manifest(op, "DAEMON", "NO_MESSAGE")

handle_fetchV0(msg) ==
    LET filtered == msg.has_metadata /\ msg.has_src_id
        fetched_message ==
            IF filtered THEN FirstWithSource(tx_buffer, msg.src_id)
            ELSE IF tx_buffer # <<>> THEN Head(tx_buffer)
            ELSE BlankEntry
        left == IF ~filtered /\ tx_buffer # <<>> THEN Tail(tx_buffer) ELSE tx_buffer
    IN  {Respond([Unchanged EXCEPT !.tx_buffer = left], ReplyV0("FETCH", fetched_message))}

\* received_message = tx_buffer.front(); rx_buffer.pop_front();
handle_receiveV0(msg) ==
    IF msg.has_metadata /\ msg.has_dest_id
    THEN {Respond(Unchanged, ReplyV0("RECEIVE", FirstWithDestination(rx_buffer, msg.dest_id)))}
    ELSE IF rx_buffer = <<>>
    THEN {Respond(Unchanged, ReplyV0("RECEIVE", BlankEntry))}
    ELSE IF tx_buffer # <<>>
    THEN {Respond([Unchanged EXCEPT !.rx_buffer = Tail(rx_buffer)],
                  ReplyV0("RECEIVE", Head(tx_buffer)))}
    ELSE {Crash}
         \cup {Respond([Unchanged EXCEPT !.rx_buffer = Tail(rx_buffer)], ReplyV0("RECEIVE", g)) :
               g \in GarbageEntries}

handle_messageV0(msg) ==
    CASE msg.op = "PING" -> handle_ping(msg)
      [] msg.op = "SEND" -> handle_sendV0(msg)
      [] msg.op = "FETCH" -> handle_fetchV0(msg)
      [] msg.op = "POST" -> handle_postV0(msg)
      [] msg.op = "RECEIVE" -> handle_receiveV0(msg)
      [] msg.op = "EXIT" -> stop
      [] OTHER -> {Respond(Unchanged, Manifest("PING", "DAEMON", "FAILURE"))}

\* One readable connection of the select round: the frame is read, handled
\* and the response, if any, written back on the same fd.
DeliverV0(fd, msg, o) ==
    /\ listening /\ ~crashed /\ stuck = <<>>
    /\ \E i \in 1..Len(Readable) : Readable[i] = fd
    /\ sweep' = IF o.running THEN <<>> ELSE After(Readable, fd)
    /\ o \in handle_messageV0(msg)
    /\ tx_buffer' = o.tx_buffer
    /\ rx_buffer' = o.rx_buffer
    /\ running' = o.running
    /\ crashed' = o.crashed
    /\ handled' = [msg |-> msg, fd |-> fd]
    /\ writes' = [i \in 1..Len(o.response) |-> [msg |-> o.response[i], fd |-> fd]]
    /\ txLog' = IF msg.op = "SEND" THEN Append(txLog, Last(o.tx_buffer)) ELSE txLog
    /\ rxLog' = IF msg.op = "POST" /\ Len(o.rx_buffer) > Len(rx_buffer)
                THEN Append(rxLog, Last(o.rx_buffer)) ELSE rxLog
    /\ UNCHANGED <<cfg, listening, stuck, channel_fds, fd_lookup, backlog, sock, outbox,
                   app_client_lookup, sim_client_lookup, popLog, rcvLog>>

\* A connected client writes a frame on one of its connections.
FrameV0(c, ch, msg) ==
    /\ pc[c] = "connected"
    /\ Accepted(c, ch)
    /\ \E o \in handle_messageV0(msg) : DeliverV0(FdOf(c, ch), msg, o)
    /\ UNCHANGED <<clientVars, dbVars>>

\* The daemon of src/nsb_daemon.cc with one app and one simulator: the app
\* sends, the simulator posts, and RECEIVE and FETCH frames arrive with and
\* without the optional identifier.
NextV0 ==
    \/ Accept
    \/ \E c \in CloseClients : connectToServer(c)
    \/ \E p \in Payloads : Len(txLog) < MaxWire /\ FrameV0("appA", "SEND", sendFrame("appA", "B", p))
    \/ \E p \in Payloads, ok \in BOOLEAN :
          Len(rxLog) < MaxWire /\ FrameV0("simS", "SEND", postFrameV0("simS", "B", "A", p, Len(p), ok))
    \/ \E s \in {"A", nullptr} : FrameV0("simS", "RECV", fetchFrame("simS", s))
    \/ \E d \in {"A", nullptr} : FrameV0("appA", "RECV", receiveFrameV0("appA", d))
    \/ \E c \in CloseClients : FrameV0(c, "CTRL", pingFrame(c))
    \/ \E c \in CloseClients : FrameV0(c, "CTRL", exitFrame(c))

SpecV0 == InitPull /\ [][NextV0]_vars

\* Registration over the daemon's run, system-wide simulator: an app and
\* two simulators start one after the other, ping, and close their
\* connections; the daemon notices each closed connection.
InitWide ==
    \E m \in {"PULL", "PUSH"} :
        InitWith([SYSTEM_MODE |-> m, SIMULATOR_MODE |-> "SYSTEM_WIDE", USE_DB |-> FALSE])

NextWide ==
    \/ Accept
    \/ \E c \in PushClients : InTurn(c, PushClients) /\ connectToServer(c)
    \/ \E c \in PushClients : Settled(c) /\ initialize(c)
    \/ \E c \in PushClients : ping(c)
    \/ \E c \in PushClients : closeConnection(c)
    \/ \E fd \in DOMAIN sock : InOrder(fd) /\ Disconnect(fd)

SpecWide == InitWide /\ [][NextWide]_vars

(***************************************************************************)
(* A receiveMessage call that waits.  In PUSH mode receive and fetch read  *)
(* the RECV channel without writing a request; when the first select finds *)
(* nothing to deliver, the call waits, and it ends with a frame, with the  *)
(* timeout, or with a select error.                                        *)
(***************************************************************************)
\* The daemon has closed the client's connection of the channel (or its
\* process is gone): the client's socket is readable and recv returns 0.
AtEOF(c, ch) == ~Accepted(c, ch) \/ crashed

\* What the API call returns once receiveMessage has returned the response.
Returned(c, response) ==
    IF c \in AppClients
    THEN Call("receive", nullptr, nullptr, <<>>, receiveResult(c, response))
    ELSE Call("fetch", nullptr, nullptr, <<>>, fetchResult(c, response))

\* select returns with nothing to deliver: no frame has arrived (activity
\* would be 0 at the timeout), or the socket is at end of file and every
\* round of the loop reads zero bytes.
receiveMessage_wait(c) ==
    /\ pc[c] = "ready" /\ ccfg[c].SYSTEM_MODE = "PUSH"
    /\ waiting[c] = {}
    /\ Len(calls[c]) < MaxWire
    /\ Waiting(c) = <<>>
    /\ waiting' = [waiting EXCEPT ![c] = {"RECV"}]
    /\ DaemonIdle
    /\ UNCHANGED <<netVars, pc, ccfg, calls, dbVars>>

\* activity > 0 and bytes were read: the call returns the frame.
receiveMessage_frame(c) ==
    /\ pc[c] = "ready" /\ waiting[c] = {"RECV"}
    /\ Waiting(c) # <<>>
    /\ TakeWaiting(c)
    /\ calls' = [calls EXCEPT ![c] = Append(@, Returned(c, Waiting(c)))]
    /\ Take(c, Waiting(c), {"RECEIVE", "FETCH", "FORWARD"})
    /\ \E died \in (IF c \in AppClients THEN receiveDies(c, nullptr, Waiting(c)) ELSE {FALSE}) :
          pc' = [pc EXCEPT ![c] = IF died THEN "exited" ELSE @]
    /\ waiting' = [waiting EXCEPT ![c] = {}]
    /\ UNCHANGED ccfg

\* activity == 0: the timeout has passed with the socket never readable.
receiveMessage_timeout(c) ==
    /\ pc[c] = "ready" /\ waiting[c] = {"RECV"}
    /\ Waiting(c) = <<>> /\ ~AtEOF(c, "RECV")
    /\ calls' = [calls EXCEPT ![c] = Append(@, Returned(c, <<>>))]
    /\ waiting' = [waiting EXCEPT ![c] = {}]
    /\ DaemonIdle
    /\ UNCHANGED <<netVars, pc, ccfg, dbVars>>

\* activity < 0: select rejects its arguments.  The timeval the loop passes
\* went out of scope before the loop, so what select reads as the timeout is
\* whatever the build left in that stack slot.
receiveMessage_error(c) ==
    /\ pc[c] = "ready" /\ waiting[c] = {"RECV"}
    /\ calls' = [calls EXCEPT ![c] = Append(@, Returned(c, <<>>))]
    /\ waiting' = [waiting EXCEPT ![c] = {}]
    /\ DaemonIdle
    /\ UNCHANGED <<netVars, pc, ccfg, dbVars>>

\* PUSH mode with a system-wide simulator: an app and the simulator wait on
\* RECV while pings, sends and posts of the same clients go on; a client
\* may end the daemon, which then closes every connection.
InitWait == InitWith([SYSTEM_MODE |-> "PUSH", SIMULATOR_MODE |-> "SYSTEM_WIDE", USE_DB |-> FALSE])

NextWait ==
    \/ Accept
    \/ \E c \in CloseClients : InTurn(c, CloseClients) /\ connectToServer(c)
    \/ \E c \in CloseClients : Settled(c) /\ initialize(c)
    \/ \E c \in CloseClients : receiveMessage_wait(c)
    \/ \E c \in CloseClients : receiveMessage_frame(c)
    \/ \E c \in CloseClients : receiveMessage_timeout(c)
    \/ \E c \in CloseClients : receiveMessage_error(c)
    \/ \E c \in CloseClients : ping(c)
    \/ \E c \in CloseClients \cap AppClients, p \in Payloads :
          pc["simS"] = "ready" /\ Len(txLog) < MaxCycle /\ send(c, "B", p)
    \/ \E c \in CloseClients \cap SimClients, p \in Payloads : PostFrame(c, "B", "A", p, TRUE)
    \/ \E c \in CloseClients : exit(c)
    \/ Teardown

SpecWait == InitWait /\ [][NextWait]_vars

\* select wakes a waiting call when a frame arrives and when the timeout has
\* passed; the stopped daemon's loop goes on to its teardown.
SpecWaitFair ==
    /\ SpecWait
    /\ \A c \in CloseClients : WF_vars(receiveMessage_frame(c)) /\ WF_vars(receiveMessage_timeout(c))
    /\ WF_vars(Teardown)

(***************************************************************************)
(* The FORWARD write that waits.  In PUSH mode handle_send and handle_post *)
(* wait in select, without a timeout, for the target's RECV socket to      *)
(* become writable; the single-threaded loop does nothing else meanwhile.  *)
(***************************************************************************)
\* select returns with the fd writable: the frame is sent and the handler
\* returns to the loop.
Unblock ==
    /\ stuck # <<>> /\ ~crashed
    /\ stuck[1].fd \in DOMAIN sock /\ Writable(stuck[1].fd)
    /\ outbox' = [outbox EXCEPT ![sock[stuck[1].fd]] = Append(@, stuck[1].msg)]
    /\ stuck' = <<>>
    /\ handled' = NoFrame
    /\ writes' = stuck
    /\ UNCHANGED <<cfg, running, listening, sweep, crashed, channel_fds, fd_lookup,
                   app_client_lookup, sim_client_lookup, tx_buffer, rx_buffer,
                   backlog, sock, clientVars, txLog, popLog, rxLog, rcvLog, dbVars>>

\* A ready client writes a frame that the daemon reads, however many frames
\* wait unread on the clients' connections.
FrameNow(c, ch, msg) ==
    /\ pc[c] = "ready"
    /\ Accepted(c, ch)
    /\ \E o \in handle_message(msg) : Deliver(FdOf(c, ch), msg, o)
    /\ UNCHANGED <<clientVars, dbVars>>

\* Both system modes with a system-wide simulator: an app, the simulator and
\* a late second simulator.  The app sends and the simulator posts also when
\* the target has not read what was forwarded to it before; the targets read
\* a bounded number of times.
InitBlock ==
    \E m \in {"PULL", "PUSH"} :
        InitWith([SYSTEM_MODE |-> m, SIMULATOR_MODE |-> "SYSTEM_WIDE", USE_DB |-> FALSE])

NextBlock ==
    \/ Accept
    \/ \E c \in PushClients : InTurn(c, PushClients) /\ connectToServer(c)
    \/ \E c \in PushClients : Settled(c) /\ initialize(c)
    \/ \E c \in PushClients : ping(c)
    \/ \E c \in PushClients : exit(c)
    \/ \E p \in Payloads :
          /\ pc["simS"] = "ready" /\ Len(txLog) < MaxCycle
          /\ FrameNow("appA", "SEND", sendFrame("appA", "B", p))
    \/ \E p \in Payloads :
          /\ Len(rxLog) < MaxCycle
          /\ FrameNow("simS", "SEND", postFrameV0("simS", "B", "A", p, Len(p), TRUE))
    \/ \E c \in PushClients \cap SimClients : Len(calls[c]) < MaxCycle /\ fetch(c, nullptr)
    \/ \E c \in PushClients \cap AppClients : Len(calls[c]) < MaxCycle /\ receive(c, nullptr)
    \/ Unblock
    \/ Teardown

SpecBlock == InitBlock /\ [][NextBlock]_vars

(***************************************************************************)
(* Properties.                                                             *)
(***************************************************************************)
RemoveAt(seq, i) == SubSeq(seq, 1, i - 1) \o SubSeq(seq, i + 1, Len(seq))

FirstIndexWithSource(buffer, src_id) ==
    CHOOSE i \in 1..Len(buffer) :
        /\ buffer[i].source = src_id
        /\ \A j \in 1..(i - 1) : buffer[j].source # src_id

FirstIndexWithDestination(buffer, dest_id) ==
    CHOOSE i \in 1..Len(buffer) :
        /\ buffer[i].destination = dest_id
        /\ \A j \in 1..(i - 1) : buffer[j].destination # dest_id

\* The daemon wrote exactly one frame in the last step: a response with
\* this op and code on the fd the handled frame came from.
OneResponse(h, w, op, code) ==
    /\ Len(w) = 1
    /\ w[1].fd = h.fd
    /\ w[1].msg.op = op /\ w[1].msg.og = "DAEMON" /\ w[1].msg.code = code

C2_FilteredFetchRemoves ==
    [][(/\ handled'.msg.op = "FETCH" /\ handled'.msg.has_src_id
        /\ \E i \in 1..Len(tx_buffer) : tx_buffer[i].source = handled'.msg.src_id)
       => LET i == FirstIndexWithSource(tx_buffer, handled'.msg.src_id)
          IN  /\ OneResponse(handled', writes', "FETCH", "MESSAGE")
              /\ EntryOf(writes'[1].msg) = tx_buffer[i]
              /\ tx_buffer' = RemoveAt(tx_buffer, i)]_vars

Count(seq, e) == Cardinality({i \in 1..Len(seq) : seq[i] = e})

\* C3: conservation in PULL mode: an entry that POST appended to rx_buffer
\* is returned by one RECEIVE reply and by no second one, over any sequence
\* of operations.
C3_Conservation ==
    \A i \in 1..Len(rcvLog) : Count(rcvLog, rcvLog[i]) <= Count(rxLog, rcvLog[i])

\* C4: in PULL mode a RECEIVE with dest_id = D is answered MESSAGE exactly
\* when rx_buffer holds an entry with destination D; the entry returned is
\* the earliest such entry, and its destination is D.
C4_ReceiveByDestination ==
    [][(handled'.msg.op = "RECEIVE" /\ handled'.msg.has_dest_id)
       => LET D == handled'.msg.dest_id
          IN  IF \E i \in 1..Len(rx_buffer) : rx_buffer[i].destination = D
              THEN /\ OneResponse(handled', writes', "RECEIVE", "MESSAGE")
                   /\ EntryOf(writes'[1].msg) =
                          rx_buffer[FirstIndexWithDestination(rx_buffer, D)]
                   /\ writes'[1].msg.dest_id = D
              ELSE OneResponse(handled', writes', "RECEIVE", "NO_MESSAGE")]_vars

\* A RECEIVE for D has been answered with the second of three entries: the
\* first is for another destination, the third is a later entry for D.
C4_Witness ==
    /\ handled.msg.op = "RECEIVE" /\ handled.msg.has_dest_id
    /\ Len(writes) = 1 /\ writes[1].msg.code = "MESSAGE"
    /\ Len(rx_buffer) = 3
    /\ rx_buffer[1].destination # handled.msg.dest_id
    /\ rx_buffer[2].destination = handled.msg.dest_id
    /\ rx_buffer[3].destination = handled.msg.dest_id
    /\ rx_buffer[3] # rx_buffer[2]
    /\ EntryOf(writes[1].msg) = rx_buffer[2]

\* C7: in PULL mode a RECEIVE without dest_id from app client X is served as
\* if dest_id = X: the earliest rx_buffer entry with destination X if there
\* is one, NO_MESSAGE otherwise.
C7_ReceiveDefaultsToCaller ==
    [][(/\ handled'.msg.op = "RECEIVE" /\ ~handled'.msg.has_dest_id
        /\ handled'.msg.og = "APP_CLIENT")
       => LET X == clientId(ClientOfFd(handled'.fd))
          IN  IF \E i \in 1..Len(rx_buffer) : rx_buffer[i].destination = X
              THEN /\ OneResponse(handled', writes', "RECEIVE", "MESSAGE")
                   /\ EntryOf(writes'[1].msg) =
                          rx_buffer[FirstIndexWithDestination(rx_buffer, X)]
              ELSE OneResponse(handled', writes', "RECEIVE", "NO_MESSAGE")]_vars

\* C5: end to end in PULL mode (system-wide, inline): when app X sends P to
\* Y and a simulator fetches the entry and posts it back with
\* post(src_id = X, dest_id = Y, P), the entry app Y receives has source X,
\* destination Y, payload P and size |P|: it is the entry X sent, and its
\* source is not the identifier of the posting simulator.
C5_ReceivedIsWhatWasSent ==
    \A c \in AppClients : \A k \in 1..Len(calls[c]) :
        (calls[c][k].op = "receive" /\ exists(calls[c][k].ret))
        => /\ \E i \in 1..Len(txLog) : txLog[i] = calls[c][k].ret
           /\ \E s \in SimClients : \E j \in 1..Len(calls[s]) :
                 /\ calls[s][j].op = "post"
                 /\ calls[s][j].srcId = calls[c][k].ret.source
                 /\ calls[s][j].destId = calls[c][k].ret.destination
                 /\ calls[s][j].payload = calls[c][k].ret.payload_obj

\* C6: with SENDs arriving in the order A1, B1, A2, B2, the calls
\* fetch(B), fetch(), fetch(A), fetch() return B1, A1, A2, B2 and leave
\* tx_buffer empty.
C6_SkipOver ==
    LET A1 == MessageEntry("A", "B", <<1>>, 1)
        B1 == MessageEntry("B", "A", <<1>>, 1)
        A2 == MessageEntry("A", "B", <<2, 2>>, 2)
        B2 == MessageEntry("B", "A", <<2, 2>>, 2)
        f == calls["simS"]
    IN  (/\ txLog = <<A1, B1, A2, B2>>
         /\ Len(f) = 4
         /\ \A k \in 1..4 : f[k].op = "fetch"
         /\ <<f[1].srcId, f[2].srcId, f[3].srcId, f[4].srcId>> = <<"B", nullptr, "A", nullptr>>)
        => /\ <<f[1].ret, f[2].ret, f[3].ret, f[4].ret>> = <<B1, A1, A2, B2>>
           /\ tx_buffer = <<>>

\* C8: in PULL mode a FETCH (a RECEIVE) for which tx_buffer (rx_buffer)
\* holds no matching entry, because the buffer is empty or the filter matches
\* nothing, is answered by exactly one reply, with code NO_MESSAGE, and the
\* client call returns the empty MessageEntry.
C8_NoMessage ==
    [][/\ (/\ handled'.msg.op = "FETCH"
           /\ IF handled'.msg.has_src_id
              THEN \A i \in 1..Len(tx_buffer) : tx_buffer[i].source # handled'.msg.src_id
              ELSE tx_buffer = <<>>)
          => /\ OneResponse(handled', writes', "FETCH", "NO_MESSAGE")
             /\ Len(calls'[ClientOfFd(handled'.fd)]) = Len(calls[ClientOfFd(handled'.fd)]) + 1
             /\ Last(calls'[ClientOfFd(handled'.fd)]).op = "fetch"
             /\ Last(calls'[ClientOfFd(handled'.fd)]).ret = BlankEntry
       /\ (/\ handled'.msg.op = "RECEIVE"
           /\ \A i \in 1..Len(rx_buffer) : rx_buffer[i].destination # handled'.msg.dest_id)
          => /\ OneResponse(handled', writes', "RECEIVE", "NO_MESSAGE")
             /\ Len(calls'[ClientOfFd(handled'.fd)]) = Len(calls[ClientOfFd(handled'.fd)]) + 1
             /\ Last(calls'[ClientOfFd(handled'.fd)]).op = "receive"
             /\ Last(calls'[ClientOfFd(handled'.fd)]).ret = BlankEntry]_vars

\* A receive found nothing for its destination in a buffer that holds an
\* entry for another one, after a fetch filtered by a source that had sent
\* nothing and a fetch on the emptied buffer had both returned empty.
C8_Witness ==
    /\ handled.msg.op = "RECEIVE"
    /\ rx_buffer # <<>>
    /\ \A i \in 1..Len(rx_buffer) : rx_buffer[i].destination # handled.msg.dest_id
    /\ Len(writes) = 1 /\ writes[1].msg.code = "NO_MESSAGE"
    /\ Last(calls[ClientOfFd(handled.fd)]).ret = BlankEntry
    /\ \E k \in 1..Len(calls["simS"]) :
          /\ calls["simS"][k].op = "fetch" /\ calls["simS"][k].srcId # nullptr
          /\ calls["simS"][k].ret = BlankEntry
    /\ \E k \in 1..Len(calls["simS"]) :
          /\ calls["simS"][k].op = "fetch" /\ calls["simS"][k].srcId = nullptr
          /\ calls["simS"][k].ret = BlankEntry

\* C9: a POST whose code is NO_MESSAGE changes no daemon state in either
\* system mode: both buffers stay as they are and no frame, FORWARD or
\* response, is written to any client.
C9_DroppedPostIsIgnored ==
    [][(handled'.msg.op = "POST" /\ handled'.msg.code = "NO_MESSAGE")
       => /\ rx_buffer' = rx_buffer
          /\ tx_buffer' = tx_buffer
          /\ writes' = <<>>
          /\ outbox' = outbox]_vars

\* The simulator a SEND is forwarded to, when it is registered.
TargetRegistered(msg) ==
    IF cfg.SIMULATOR_MODE = "SYSTEM_WIDE" THEN DOMAIN sim_client_lookup # {}
    ELSE msg.src_id \in DOMAIN sim_client_lookup

TargetSim(msg) ==
    IF cfg.SIMULATOR_MODE = "SYSTEM_WIDE"
    THEN sim_client_lookup[CHOOSE k \in DOMAIN sim_client_lookup : TRUE]
    ELSE sim_client_lookup[msg.src_id]

\* C10: in PUSH mode with the target simulator registered, each SEND the
\* daemon handles has exactly one frame written, to that simulator's RECV
\* connection: a FORWARD with originator APP, code MESSAGE and the metadata
\* and payload of the SEND; nothing is written back to the sending app.
C10_SendIsForwarded ==
    [][(/\ cfg.SYSTEM_MODE = "PUSH" /\ handled'.msg.op = "SEND"
        /\ TargetRegistered(handled'.msg))
       => /\ Len(writes') = 1
          /\ writes'[1].fd \in DOMAIN sock
          /\ \E c \in SimClients :
                /\ clientId(c) = TargetSim(handled'.msg).identifier
                /\ sock[writes'[1].fd] = Port(c, "RECV")
          /\ writes'[1].msg = [handled'.msg EXCEPT !.op = "FORWARD"]
          /\ writes'[1].msg.og = "APP_CLIENT" /\ writes'[1].msg.code = "MESSAGE"]_vars

\* C11: in PUSH mode a POST with code MESSAGE and dest_id = D is written as
\* a FORWARD frame to the RECV fd registered for app D in app_client_lookup,
\* and to no other fd; when no app D is registered nothing is written.
C11_PostForwardedToDestination ==
    [][(/\ cfg.SYSTEM_MODE = "PUSH"
        /\ handled'.msg.op = "POST" /\ handled'.msg.code = "MESSAGE")
       => LET D == handled'.msg.dest_id
          IN  IF D \in DOMAIN app_client_lookup
              THEN /\ Len(writes') = 1
                   /\ writes'[1].fd = app_client_lookup[D].ch_RECV_fd
                   /\ writes'[1].msg = [handled'.msg EXCEPT !.op = "FORWARD"]
              ELSE writes' = <<>>]_vars

\* C12: in PUSH mode tx_buffer and rx_buffer are empty in every reachable
\* state: no SEND and no POST creates a MessageEntry.
C12_PushNeverBuffers ==
    cfg.SYSTEM_MODE = "PUSH" => tx_buffer = <<>> /\ rx_buffer = <<>>

\* In PUSH mode a POST with code MESSAGE has just been forwarded, after a
\* simulator had read a forwarded SEND from its RECV connection.
C12_Witness ==
    /\ cfg.SYSTEM_MODE = "PUSH"
    /\ handled.msg.op = "POST" /\ handled.msg.code = "MESSAGE"
    /\ Len(writes) = 1 /\ writes[1].msg.op = "FORWARD"
    /\ \E c \in SimClients : \E k \in 1..Len(calls[c]) :
          calls[c][k].op = "fetch" /\ exists(calls[c][k].ret)
    /\ tx_buffer = <<>> /\ rx_buffer = <<>>

\* C13: in PUSH mode a SEND whose target simulator is not registered is
\* dropped: the daemon keeps running, its buffers and lookups are unchanged
\* and nothing is written to any fd.
C13_UnroutableSendIsDropped ==
    [][(/\ cfg.SYSTEM_MODE = "PUSH" /\ handled'.msg.op = "SEND"
        /\ ~TargetRegistered(handled'.msg))
       => /\ running' /\ ~crashed'
          /\ writes' = <<>> /\ outbox' = outbox
          /\ tx_buffer' = tx_buffer /\ rx_buffer' = rx_buffer
          /\ app_client_lookup' = app_client_lookup
          /\ sim_client_lookup' = sim_client_lookup]_vars

\* C14: in system-wide simulator mode sim_client_lookup holds at most one
\* entry in every reachable state, whatever INIT frames simulators send.
C14_AtMostOneSim ==
    cfg.SIMULATOR_MODE = "SYSTEM_WIDE" => Cardinality(DOMAIN sim_client_lookup) <= 1

\* In system-wide mode two simulators have sent their INIT, the first is
\* registered, and the daemon has served a PING since.
C14_Witness ==
    /\ cfg.SIMULATOR_MODE = "SYSTEM_WIDE"
    /\ pc["simS"] = "ready" /\ pc["simA"] = "exited"
    /\ DOMAIN sim_client_lookup = {"simulator"}
    /\ sim_client_lookup["simulator"].identifier = "S"
    /\ handled.msg.op = "PING"

\* C15: in system-wide mode, when a simulator is registered, a further
\* simulator INIT is answered on the fd it came from with {INIT, DAEMON,
\* FAILURE}, the registration stays as it is, and the rejected client
\* terminates: no later frame comes from it.
C15_SecondSimIsRejected ==
    [][/\ (/\ cfg.SIMULATOR_MODE = "SYSTEM_WIDE"
           /\ handled'.msg.op = "INIT" /\ handled'.msg.og = "SIM_CLIENT"
           /\ handled'.msg.has_intro
           /\ DOMAIN sim_client_lookup # {})
          => /\ OneResponse(handled', writes', "INIT", "FAILURE")
             /\ sim_client_lookup' = sim_client_lookup
             /\ pc'[ClientOfFd(handled'.fd)] = "exited"
       /\ handled'.fd # NoFd => pc[ClientOfFd(handled'.fd)] # "exited"]_vars

\* The second simulator's INIT has just been refused and the client has
\* exited; the first simulator is still the one registered.
C15_Witness ==
    /\ cfg.SIMULATOR_MODE = "SYSTEM_WIDE"
    /\ handled.msg.op = "INIT" /\ handled.msg.og = "SIM_CLIENT"
    /\ handled.msg.intro.identifier = "A"
    /\ Len(writes) = 1 /\ writes[1].msg.code = "FAILURE" /\ writes[1].fd = handled.fd
    /\ pc["simA"] = "exited"
    /\ sim_client_lookup["simulator"].identifier = "S"

\* C16: an APP INIT whose identifier is already in app_client_lookup
\* replaces the entry: afterwards the lookup holds the fds of the newest
\* client, and a PUSH-mode POST to the identifier goes to the newest
\* client's RECV connection.
C16_DuplicateAppReplaces ==
    [][/\ (/\ handled'.msg.op = "INIT" /\ handled'.msg.og = "APP_CLIENT"
           /\ handled'.msg.has_intro
           /\ handled'.msg.intro.identifier \in DOMAIN app_client_lookup)
          => app_client_lookup'[handled'.msg.intro.identifier] = ClientDetails(handled'.msg)
       /\ (/\ cfg.SYSTEM_MODE = "PUSH"
           /\ handled'.msg.op = "POST" /\ handled'.msg.code = "MESSAGE"
           /\ handled'.msg.dest_id = "A"
           /\ pc["appA"] = "ready" /\ pc["appA2"] = "ready"
           /\ writes' # <<>>)
          => sock[writes'[1].fd] = Port("appA2", "RECV")]_vars

\* C17: an INIT frame whose originator is neither APP nor SIM, or that has
\* no IntroDetails, is answered with an INIT reply with code FAILURE and
\* registers nothing in either lookup.
C17_MalformedInitIsRefused ==
    [][(/\ handled'.msg.op = "INIT"
        /\ (handled'.msg.og \notin {"APP_CLIENT", "SIM_CLIENT"} \/ ~handled'.msg.has_intro))
       => /\ OneResponse(handled', writes', "INIT", "FAILURE")
          /\ app_client_lookup' = app_client_lookup
          /\ sim_client_lookup' = sim_client_lookup]_vars

\* C18: after a successful INIT the client's configuration equals the
\* daemon's in system mode, simulator mode and use of the offload store.
C18_ClientConfigIsDaemonConfig ==
    \A c \in Clients :
        pc[c] = "ready"
        => /\ ccfg[c].SYSTEM_MODE = cfg.SYSTEM_MODE
           /\ ccfg[c].SIMULATOR_MODE = cfg.SIMULATOR_MODE
           /\ ccfg[c].USE_DB = cfg.USE_DB

\* C19: for every frame it handles the daemon writes at most one response
\* frame, and only on the fd the frame came from; PING, FETCH and RECEIVE
\* frames get exactly one response, SEND and POST frames get none.  (A
\* FORWARD frame written to another client is not a response.)
C19_OneResponseOnSameFd ==
    [][handled'.fd # NoFd
       => LET R == {i \in 1..Len(writes') : writes'[i].msg.op # "FORWARD"}
          IN  /\ Cardinality(R) <= 1
              /\ \A i \in R : writes'[i].fd = handled'.fd
              /\ handled'.msg.op \in {"PING", "FETCH", "RECEIVE"} => Cardinality(R) = 1
              /\ handled'.msg.op \in {"SEND", "POST"} => R = {}]_vars

\* In PUSH mode a SEND has just been handled: one frame was written, the
\* FORWARD to the simulator's connection, and nothing went back to the app.
C19_Witness ==
    /\ cfg.SYSTEM_MODE = "PUSH"
    /\ handled.msg.op = "SEND"
    /\ Len(writes) = 1 /\ writes[1].msg.op = "FORWARD"
    /\ writes[1].fd # handled.fd
    /\ sock[writes[1].fd] = Port("simS", "RECV")

KnownOps == {"INIT", "PING", "SEND", "FETCH", "POST", "RECEIVE", "EXIT"}

\* C20: a frame whose op is none of INIT, PING, SEND, FETCH, POST, RECEIVE,
\* EXIT (a FORWARD sent to the daemon, for one) is answered {PING, DAEMON,
\* FAILURE} and leaves both buffers, both lookups and the running flag as
\* they are.
C20_UnknownOpIsRefused ==
    [][(handled'.fd # NoFd /\ handled'.msg.op \notin KnownOps)
       => /\ OneResponse(handled', writes', "PING", "FAILURE")
          /\ tx_buffer' = tx_buffer /\ rx_buffer' = rx_buffer
          /\ app_client_lookup' = app_client_lookup
          /\ sim_client_lookup' = sim_client_lookup
          /\ running' = running /\ ~crashed']_vars

\* A FORWARD frame sent to the daemon has just been refused while both
\* buffers hold entries.
C20_Witness ==
    /\ handled.msg.op = "FORWARD"
    /\ Len(writes) = 1 /\ writes[1].fd = handled.fd
    /\ writes[1].msg = Manifest("PING", "DAEMON", "FAILURE")
    /\ tx_buffer # <<>> /\ rx_buffer # <<>>
    /\ running

\* C21: once the daemon has handled an EXIT frame, running is false and never
\* becomes true again, the event loop terminates (start_server returns), and
\* when start_server has returned every accepted channel fd is closed.
C21_ExitStopsTheDaemon ==
    /\ [][handled'.msg.op = "EXIT" => ~running']_vars
    /\ [][~running => ~running']_vars
    /\ [](~listening => sock = EmptyMap)
    /\ (~running ~> ~listening)

\* C22: a step that closes a channel connection leaves tx_buffer and
\* rx_buffer as they were; the entries of the client that went away stay
\* and are handed out by later FETCH and RECEIVE requests.
C22_CloseKeepsBuffers ==
    [][(\E fd \in DOMAIN sock : fd \notin DOMAIN sock')
       => (tx_buffer' = tx_buffer /\ rx_buffer' = rx_buffer)]_vars

\* The app has been destroyed and its three connections are closed; a FETCH
\* is answered with the entry it had sent.
C22_Witness ==
    /\ pc["appA"] = "closed"
    /\ \A ch \in {"CTRL", "SEND", "RECV"} : ~Accepted("appA", ch)
    /\ handled.msg.op = "FETCH"
    /\ Len(writes) = 1
    /\ writes[1].msg.code = "MESSAGE"
    /\ writes[1].msg.src_id = "A"

\* The fds the ClientDetails of a lookup hold.
SlotFds(lookup) ==
    UNION {{lookup[id].ch_CTRL_fd, lookup[id].ch_SEND_fd, lookup[id].ch_RECV_fd} :
           id \in DOMAIN lookup}

\* C23: while the daemon serves, no table refers to a closed fd: every fd in
\* fd_lookup is open and is the socket of the port it is filed under, and
\* every fd held by a ClientDetails of either lookup is open.
C23_NoStaleFd ==
    listening =>
        /\ \A port \in DOMAIN fd_lookup :
              fd_lookup[port] \in DOMAIN sock /\ sock[fd_lookup[port]] = port
        /\ (SlotFds(app_client_lookup) \cup SlotFds(sim_client_lookup)) \ {NoFd}
              \subseteq DOMAIN sock

\* The channel slots of the registered clients: which lookup, which client,
\* which channel, and the fd it holds.
Slots ==
    {<<"app", id, "CTRL", app_client_lookup[id].ch_CTRL_fd>> : id \in DOMAIN app_client_lookup}
    \cup {<<"app", id, "SEND", app_client_lookup[id].ch_SEND_fd>> : id \in DOMAIN app_client_lookup}
    \cup {<<"app", id, "RECV", app_client_lookup[id].ch_RECV_fd>> : id \in DOMAIN app_client_lookup}
    \cup {<<"sim", id, "CTRL", sim_client_lookup[id].ch_CTRL_fd>> : id \in DOMAIN sim_client_lookup}
    \cup {<<"sim", id, "SEND", sim_client_lookup[id].ch_SEND_fd>> : id \in DOMAIN sim_client_lookup}
    \cup {<<"sim", id, "RECV", sim_client_lookup[id].ch_RECV_fd>> : id \in DOMAIN sim_client_lookup}

\* C24: no connection fd is held by two channel slots, be they slots of two
\* registered clients or two slots of one client.
C24_FdInOneSlot ==
    \A s, t \in Slots : (s[4] = t[4] /\ s[4] # NoFd) => s = t

\* C25: every entry of tx_buffer and of rx_buffer has a non-empty source and
\* a non-empty destination, whatever SEND and POST frames the daemon has
\* handled, frames without metadata included.
C25_EntriesAreAddressed ==
    /\ \A i \in 1..Len(tx_buffer) : tx_buffer[i].source # "" /\ tx_buffer[i].destination # ""
    /\ \A i \in 1..Len(rx_buffer) : rx_buffer[i].source # "" /\ rx_buffer[i].destination # ""

\* C26: only a SEND frame whose originator is APP_CLIENT adds an entry to
\* tx_buffer and only a POST frame whose originator is SIM_CLIENT adds one to
\* rx_buffer.
C26_BuffersByOriginator ==
    [][/\ tx_buffer' # tx_buffer /\ Len(tx_buffer') > Len(tx_buffer)
          => handled'.msg.op = "SEND" /\ handled'.msg.og = "APP_CLIENT"
       /\ rx_buffer' # rx_buffer /\ Len(rx_buffer') > Len(rx_buffer)
          => handled'.msg.op = "POST" /\ handled'.msg.og = "SIM_CLIENT"]_vars

\* One complete cycle with the store online: the app has sent one payload,
\* the simulator has fetched it and posted it back, and the app has
\* received an entry.
CycleDone ==
    /\ \A c \in DbClients : db_online[c]
    /\ Len(puts) = 2 /\ puts[1].by = "appA" /\ puts[2].by = "simA"
    /\ Len(calls["simA"]) = 2
    /\ calls["simA"][1].op = "fetch" /\ exists(calls["simA"][1].ret)
    /\ calls["simA"][2].op = "post"
    /\ Len(calls["appA"]) = 1
    /\ calls["appA"][1].op = "receive" /\ exists(calls["appA"][1].ret)

\* C27: with the offload store in use, after a complete send, fetch, post,
\* receive cycle of payload P the entry the app receives has payload P, no
\* key of the cycle is left in the store, and each key that was put was
\* taken once: there are as many takes as puts and none of them missed.
C27_OffloadRoundTrip ==
    CycleDone
    => /\ calls["appA"][1].ret.payload_obj = puts[1].value
       /\ redis = EmptyMap
       /\ Len(takes) = Len(puts)
       /\ \A j \in 1..Len(takes) : takes[j].hit

\* The payload given to the latest call of store that returned key: what
\* the frame would carry inline without the offload store.
Original(key) ==
    puts[CHOOSE i \in 1..Len(puts) :
            puts[i].key = key /\ \A j \in (i + 1)..Len(puts) : puts[j].key # key].value

\* C28: the entry a fetch or a receive returns with the offload store in
\* use is the entry the same calls return without it: when the reply is a
\* MESSAGE, the call returns its source, destination and size with, as the
\* payload, the bytes that were given to store for the reply's key.
C28_OffloadIsomorphism ==
    [][\A c \in DbClients :
          (/\ Len(calls'[c]) > Len(calls[c])
           /\ Last(calls'[c]).op \in {"fetch", "receive"}
           /\ Len(writes') = 1 /\ writes'[1].msg.code = "MESSAGE"
           /\ \E i \in 1..Len(puts) : puts[i].key = writes'[1].msg.msg_key)
          => Last(calls'[c]).ret =
                MessageEntry(writes'[1].msg.src_id, writes'[1].msg.dest_id,
                             Original(writes'[1].msg.msg_key),
                             writes'[1].msg.payload_size)]_vars

\* C29: the keys returned by store are pairwise distinct, over all calls by
\* all clients.
C29_KeysAreDistinct ==
    \A i, j \in 1..Len(puts) :
        (i # j /\ puts[i].key # NoKey /\ puts[j].key # NoKey) => puts[i].key # puts[j].key

\* C30: a send or post whose store fails writes no frame and adds nothing to
\* a buffer, and a fetch or receive whose checkOut misses returns the empty
\* MessageEntry.
C30_StoreFailuresAreContained ==
    [][/\ (Len(puts') > Len(puts) /\ Last(puts').key = NoKey)
          => /\ handled' = NoFrame
             /\ tx_buffer' = tx_buffer /\ rx_buffer' = rx_buffer
       /\ (Len(takes') > Len(takes) /\ ~Last(takes').hit)
          => Last(calls'[Last(takes').by]).ret = BlankEntry]_vars

\* C32: with per-node simulators in PULL mode every entry a simulator's
\* fetch returns has that simulator's own identifier as its source, whatever
\* source the caller named, none included.
C32_PerNodeFetchIsOwn ==
    cfg.SIMULATOR_MODE = "PER_NODE"
    => \A c \in SimClients : \A k \in 1..Len(calls[c]) :
          (calls[c][k].op = "fetch" /\ exists(calls[c][k].ret))
          => calls[c][k].ret.source = clientId(c)

\* C33: mode consistency.  A client whose configuration is PUSH writes no
\* RECEIVE and no FETCH frame; a daemon in PULL mode writes no FORWARD frame,
\* so that none waits on a client's connection and no call returns one.
C33_ModeConsistency ==
    /\ [][(handled'.fd # NoFd /\ handled'.msg.op \in {"RECEIVE", "FETCH"})
          => ccfg[ClientOfFd(handled'.fd)].SYSTEM_MODE = "PULL"]_vars
    /\ [][cfg.SYSTEM_MODE = "PULL"
          => /\ \A i \in 1..Len(writes') : writes'[i].msg.op # "FORWARD"
             /\ \A p \in Ports : outbox'[p] = <<>>]_vars

\* In PUSH mode the app's receive has returned an entry that a simulator's
\* post had forwarded to it, and no frame was written for the call.
C33_Witness ==
    /\ cfg.SYSTEM_MODE = "PUSH" /\ ccfg["appA"].SYSTEM_MODE = "PUSH"
    /\ calls["appA"] # <<>>
    /\ Last(calls["appA"]).op = "receive"
    /\ exists(Last(calls["appA"]).ret)
    /\ handled = NoFrame
    /\ calls["simS"] # <<>>

\* The frame a fetch or receive call of c reads from RECV in the step: the
\* daemon's reply in PULL mode, the oldest frame waiting in PUSH mode; none
\* when the call times out.
ReadFromRecv(c) ==
    IF ccfg[c].SYSTEM_MODE = "PULL" THEN [i \in 1..Len(writes') |-> writes'[i].msg]
    ELSE Waiting(c)

\* C34: a fetch or receive call returns an entry that is not the empty one
\* only for a frame with code MESSAGE and op RECEIVE, FETCH or FORWARD; for a
\* NO_MESSAGE frame, a timeout, or another op or code it returns the empty
\* entry; and the calling process goes on running in every case.
C34_EmptyEntryOnAnyFailure ==
    [][\A c \in Clients :
          (Len(calls'[c]) > Len(calls[c]) /\ Last(calls'[c]).op \in {"fetch", "receive"})
          => LET got == ReadFromRecv(c)
                 good == /\ got # <<>>
                         /\ got[1].code = "MESSAGE"
                         /\ got[1].op \in {"RECEIVE", "FETCH", "FORWARD"}
             IN  /\ exists(Last(calls'[c]).ret) => good
                 /\ ~good => Last(calls'[c]).ret = BlankEntry
                 /\ pc'[c] = "ready"]_vars

\* C35: every ClientDetails the daemon has registered on an INIT holds three
\* resolved fds: no channel fd of a registered client is -1, however the
\* daemon's accepts interleave with the arrival of the INIT frame.
C35_RegisteredFdsResolved ==
    NoFd \notin SlotFds(app_client_lookup) \cup SlotFds(sim_client_lookup)

\* C39: a FETCH that is answered NO_MESSAGE leaves tx_buffer as it was, and
\* a FETCH removes an entry from tx_buffer only when its MESSAGE reply
\* carries that entry: no FETCH discards an entry without returning it.
C39_FetchDiscardsNothing ==
    [][handled'.msg.op = "FETCH"
       => /\ OneResponse(handled', writes', "FETCH", "NO_MESSAGE") => tx_buffer' = tx_buffer
          /\ tx_buffer' # tx_buffer
             => /\ OneResponse(handled', writes', "FETCH", "MESSAGE")
                /\ \E i \in 1..Len(tx_buffer) :
                      /\ tx_buffer' = RemoveAt(tx_buffer, i)
                      /\ EntryOf(writes'[1].msg) = tx_buffer[i]]_vars

\* C38: in the daemon of src/nsb_daemon.cc, a RECEIVE without dest_id that
\* is handled on a non-empty rx_buffer pops the head of rx_buffer and is
\* answered MESSAGE with the source, destination and payload of that popped
\* entry, whatever tx_buffer holds; tx_buffer is left alone.
C38_ReceivePopsRxHead ==
    [][(handled'.msg.op = "RECEIVE" /\ ~handled'.msg.has_dest_id /\ rx_buffer # <<>>)
       => /\ ~crashed'
          /\ rx_buffer' = Tail(rx_buffer)
          /\ tx_buffer' = tx_buffer
          /\ OneResponse(handled', writes', "RECEIVE", "MESSAGE")
          /\ writes'[1].msg.src_id = Head(rx_buffer).source
          /\ writes'[1].msg.dest_id = Head(rx_buffer).destination
          /\ writes'[1].msg.payload = Head(rx_buffer).payload_obj]_vars

\* C40: with a system-wide simulator, once a simulator's INIT has succeeded
\* every later simulator INIT is answered FAILURE and registers nothing,
\* also after every connection of the first simulator was closed; and no
\* step removes or alters a registration of either lookup.
C40_RegistrationsStay ==
    /\ [][(/\ cfg.SIMULATOR_MODE = "SYSTEM_WIDE"
           /\ \E c \in SimClients : pc[c] \in {"ready", "closed"}
           /\ handled'.msg.op = "INIT" /\ handled'.msg.og = "SIM_CLIENT" /\ handled'.msg.has_intro)
          => /\ OneResponse(handled', writes', "INIT", "FAILURE")
             /\ sim_client_lookup' = sim_client_lookup]_vars
    /\ [][/\ \A id \in DOMAIN app_client_lookup :
                id \in DOMAIN app_client_lookup' /\ app_client_lookup'[id] = app_client_lookup[id]
          /\ \A id \in DOMAIN sim_client_lookup :
                id \in DOMAIN sim_client_lookup' /\ sim_client_lookup'[id] = sim_client_lookup[id]]_vars

\* The first simulator has closed and the daemon has closed all three of its
\* connections; the second simulator's INIT has just been answered FAILURE.
C40_Witness ==
    /\ pc["simS"] = "closed"
    /\ \A ch \in {"CTRL", "SEND", "RECV"} : ~Accepted("simS", ch)
    /\ handled.fd # NoFd /\ ClientOfFd(handled.fd) = "simA" /\ handled.msg.op = "INIT"
    /\ OneResponse(handled, writes, "INIT", "FAILURE")
    /\ "A" \in DOMAIN app_client_lookup /\ ~Accepted("appA", "CTRL")

\* C37: a receive or fetch call that waits with a finite timeout eventually
\* returns, also when the daemon closes the channel while the call waits.
C37_WaitingCallReturns ==
    \A c \in CloseClients : (waiting[c] # {}) ~> (waiting[c] = {})

\* The daemon is in its loop and can read the client's connection.
Serving(c, ch) == running /\ listening /\ ~crashed /\ pc[c] = "ready" /\ Accepted(c, ch)

\* C31: while a receive of a client waits on RECV for a message, a ping and
\* a send of the same client can still be served and complete: the PING is
\* answered SUCCESS and the SEND is buffered (PULL) or forwarded to the
\* registered simulator (PUSH) in the step that reads it, and the waiting
\* receive is left waiting.
C31_PendingReceiveBlocksNothing ==
    /\ [](\A c \in CloseClients :
             "RECV" \in waiting[c]
             => /\ Serving(c, "CTRL") => ENABLED ping(c)
                /\ (c \in AppClients /\ Serving(c, "SEND") /\ Bounded(sendFrame(c, "B", <<1>>)))
                   => ENABLED send(c, "B", <<1>>))
    /\ [][(handled'.fd # NoFd /\ "RECV" \in waiting[ClientOfFd(handled'.fd)] /\ running)
          => /\ waiting' = waiting
             /\ handled'.msg.op = "PING" => OneResponse(handled', writes', "PING", "SUCCESS")
             /\ (handled'.msg.op = "SEND" /\ ~crashed')
                => IF cfg.SYSTEM_MODE = "PULL"
                   THEN tx_buffer' = Append(tx_buffer, EntryOf(handled'.msg))
                   ELSE /\ Len(writes') = 1 /\ writes'[1].msg.op = "FORWARD"
                        /\ writes'[1].msg.payload = handled'.msg.payload
                        /\ writes'[1].fd = sim_client_lookup["simulator"].ch_RECV_fd]_vars

\* The app's receive waits on RECV and the daemon has just forwarded a SEND
\* of the same app; an earlier ping of it was answered too.
C31_Witness ==
    /\ waiting["appA"] = {"RECV"}
    /\ handled.fd # NoFd /\ ClientOfFd(handled.fd) = "appA" /\ handled.msg.op = "SEND"
    /\ Len(writes) = 1 /\ writes[1].msg.op = "FORWARD"
    /\ outbox[Port("appA", "RECV")] = <<>>

\* The handler waits for a socket that is open and not writable.
Blocked == stuck # <<>> /\ stuck[1].fd \in DOMAIN sock /\ ~Writable(stuck[1].fd)

\* The RECV fd a SEND or POST frame is forwarded to, system-wide simulator.
TargetFd(msg) ==
    IF msg.op = "SEND" THEN sim_client_lookup["simulator"].ch_RECV_fd
    ELSE app_client_lookup[msg.dest_id].ch_RECV_fd

\* C36: in PUSH mode a SEND or POST whose target RECV fd is open and not
\* writable leaves the daemon waiting for it, and as long as the fd stays
\* unwritable the daemon does nothing: no frame is handled, no PING answered,
\* no connection accepted, no EXIT honoured, no teardown.  A handler comes to
\* wait only there: in a SEND or POST in PUSH mode, with a FORWARD to write.
C36_ForwardWaitHoldsDaemon ==
    /\ [](Blocked => /\ ~ENABLED Accept /\ ~ENABLED Teardown
                     /\ \A c \in PushClients : ~ENABLED ping(c) /\ ~ENABLED exit(c))
    /\ [][Blocked => /\ daemonVars' = daemonVars
                     /\ handled'.fd = NoFd /\ writes' = <<>>]_vars
    /\ [][(stuck = <<>> /\ stuck' # <<>>)
          => /\ cfg.SYSTEM_MODE = "PUSH"
             /\ handled'.msg.op \in {"SEND", "POST"}
             /\ stuck'[1].msg.op = "FORWARD" /\ writes' = <<>>]_vars
    /\ [][(/\ cfg.SYSTEM_MODE = "PUSH" /\ handled'.msg.op \in {"SEND", "POST"}
           /\ TargetFd(handled'.msg) \in DOMAIN sock /\ ~Writable(TargetFd(handled'.msg)))
          => stuck' = <<[msg |-> [handled'.msg EXCEPT !.op = "FORWARD"],
                         fd |-> TargetFd(handled'.msg)]>>]_vars

\* The daemon waits to forward a SEND to the simulator, which will not read
\* again, while the app has asked nothing else yet, the daemon still runs
\* and the connections of the second simulator wait to be accepted.
C36_Witness ==
    /\ Blocked /\ stuck[1].fd = sim_client_lookup["simulator"].ch_RECV_fd
    /\ Len(calls["simS"]) = MaxCycle
    /\ running /\ backlog # <<>>
    /\ pc["appA"] = "ready"

====
